---- MODULE Spec2Model ----
(***************************************************************************)
(* Pico Beacon: the mode/state controller of pico_beacon/main.py           *)
(* (class PicoBeacon), together with the remote-command entry points of    *)
(* handlers/gprs_commands.py and handlers/sms_commands.py, the battery     *)
(* test of utils/power_manager.py and the call interface of                *)
(* protocol/cinet_message.py (CiNetMessage.build).                         *)
(*                                                                         *)
(* One step of the model is one of:                                        *)
(*   - Tick: one whole iteration of PicoBeacon.run() (reboot check, motion *)
(*     update, deployment check, the handler of the current state, and the *)
(*     loop's exception boundary);                                         *)
(*   - a remote command (a handler of GPRSCommandHandler/SMSCommandHandler *)
(*     including the PicoBeacon method it calls);                          *)
(*   - a hardware interrupt callback (_handle_io_alert, _motion_callback); *)
(*   - the environment: the clock advancing, the battery voltage changing. *)
(*                                                                         *)
(* The whole object state is held in the record Self; every handler is an  *)
(* operator from a record (and the tick's inputs) to the record after the  *)
(* handler returned, so that the handlers compose in the order the loop    *)
(* calls them.                                                             *)
(***************************************************************************)
EXTENDS Integers, Sequences, FiniteSets, TLC

VARIABLES
    state,                  \* self.state
    operating_mode,         \* self.config["operating_mode"]
    rf_enabled,             \* self._rf_enabled
    retry_count,            \* self.retry_count
    last_transmit_time,     \* self.last_transmit_time
    error_message,          \* self.error_message
    is_moving,              \* self._is_moving
    motion_woke_us,         \* self._motion_woke_us
    motion_timeout_start,   \* self._motion_timeout_start
    motion_detected,        \* motion_sensor._motion_detected
    deployment_mode,        \* self._deployment_mode
    continuous_mode,        \* self._continuous_mode
    reboot_requested,       \* self._reboot_requested
    log_upload_requested,   \* self._log_upload_requested
    status_requested,       \* gprs_handler._status_requested
    locate_requested,       \* gprs_handler._locate_requested
    pending_alerts,         \* self._pending_alerts (the alert types, in order)
    sequence,               \* protocol.sequence
    now,                    \* time.ticks_ms(), in model time units
    battery,                \* power.read_battery_voltage(), in tenths of a volt
    running,                \* FALSE once machine.reset() was called
    messages,               \* history: the messages CiNetMessage.build returned
    events,                 \* history: the number of external events so far
    net_op,                 \* history: the network call made by the last step
    handler,                \* history: the state whose handler the last step
                            \* ran, NoHandler if it was not a loop iteration
    watchdog_fed,           \* history: the last step fed the watchdog
    pc,                     \* where _state_transmit stands, PcIdle outside it
    alert_mask,             \* the local alert_mask of _state_transmit
    alert_index,            \* the position of its for loop in _pending_alerts
    motion_since_standby,   \* history: the motion interrupt fired after the
                            \* last enter-standby command
    held_alerts,            \* history: the pending alerts that were raised
                            \* while RF was disabled
    buffer,                 \* protocol._buffer
    source_type,            \* protocol._source_type before padding
    strict_bytes,           \* a bytearray store out of 0 .. 255 raises
    raised,                 \* history: the last call of build raised
    plain,                  \* history: the buffer build had before line 95
    calls,                  \* history: the number of calls of build
    build_args,             \* history: the arguments of the last call
    kept,                   \* history: a copy of a returned message
    ts_in,                  \* the arguments of _encode_datong_timestamp
    ts_bytes,               \* the five bytes it returned
    ts_out,                 \* what decode_datong_timestamp made of them
    cipher,                 \* a Blowfish object of a caller, the buffer it
                            \* was given and the calls made on it so far
    rates                   \* the configured reporting rates in seconds and
                            \* what the last set-rate command returned

vars == <<state, operating_mode, rf_enabled, retry_count, last_transmit_time,
          error_message, is_moving, motion_woke_us, motion_timeout_start,
          motion_detected, deployment_mode, continuous_mode, reboot_requested,
          log_upload_requested, status_requested, locate_requested,
          pending_alerts, sequence, now, battery, running, messages,
          events, net_op, handler, watchdog_fed, pc, alert_mask,
          alert_index, motion_since_standby, held_alerts, buffer, source_type, strict_bytes, raised, plain,
          calls, build_args, kept, ts_in, ts_bytes, ts_out, cipher, rates>>

(* the variables of the controller *)
beacon_vars ==
    <<state, operating_mode, rf_enabled, retry_count, last_transmit_time,
      error_message, is_moving, motion_woke_us, motion_timeout_start,
      motion_detected, deployment_mode, continuous_mode, reboot_requested,
      log_upload_requested, status_requested, locate_requested,
      pending_alerts, now, battery, running, messages, events, net_op,
      handler, watchdog_fed, pc, alert_mask, alert_index,
      motion_since_standby, held_alerts>>

----------------------------------------------------------------------------
(* config.py: class State *)
STARTUP == 0
INIT == 1
GPS_ACQUIRE == 2
NETWORK_CONNECT == 3
READY == 4
TRANSMIT == 5
SLEEP == 6
STANDBY == 7
HIBERNATE == 8
LOG_UPLOAD == 9
ERROR == 10

States == STARTUP..ERROR

(* config.py: class OperatingMode, and the two mode strings main.py and the *)
(* command handlers write literally.                                        *)
MODE_ACTIVE == "active"
MODE_STANDBY == "standby"
MODE_HIBERNATE == "hibernate"
MODE_LOGGING == "logging"
MODE_FOREVER_STANDBY == "forever_standby"
MODE_CONTINUOUS == "continuous"

Modes == {MODE_ACTIVE, MODE_STANDBY, MODE_HIBERNATE, MODE_LOGGING,
          MODE_FOREVER_STANDBY, MODE_CONTINUOUS}

(* config.py: class AlertType, the two kinds _handle_io_alert queues *)
INPUT_CHANGE == 8
TAMPER == 16

AlertTypes == {INPUT_CHANGE, TAMPER}

(* config.py: class Timing *)
MAX_RETRIES == 3

(* utils/power_manager.py: BATTERY_EMPTY = 3.0 V, in tenths of a volt *)
BATTERY_EMPTY == 30

(* error_message values *)
NoError == "None"
BatteryCriticalMsg == "Battery critical"
BuildTypeErrorMsg == "TypeError: build() takes from 2 to 3 positional arguments but 4 were given"
UnexpectedFailureMsg == "unexpected failure"

(* The calls of a loop iteration, outside the state handlers, at which an  *)
(* unexpected failure is injected: gps.update() before the motion update,  *)
(* io_controller.update() after it, _handle_data_logging() after the       *)
(* state handler.                                                          *)
FaultNone == "none"
FaultGpsUpdate == "gps.update"
FaultIoUpdate == "io_controller.update"
FaultDataLogging == "_handle_data_logging"
Faults == {FaultNone, FaultGpsUpdate, FaultIoUpdate, FaultDataLogging}

(* network calls a step can make *)
NetNone == "none"
NetConnect == "connect"
NetSend == "send"

----------------------------------------------------------------------------
(* Bounds of the model.  Time is counted in model units: the configured    *)
(* rates and timeouts are scaled down, keeping their order                 *)
(* (moving < stopped < standby, motion timeout, deployment window).        *)
MaxTime == 3
MaxMessages == 2
MaxRetryCount == 4
MaxEvents == 2
RateMoving == 1
RateStopped == 2
RateStandby == 3
MotionTimeout == 1
DeploymentDuration == 1

(* ticks_ms() when the constructor runs *)
StartupTime == 1

(* battery voltages the environment chooses from: below, at and above      *)
(* BATTERY_EMPTY                                                           *)
BatteryLevels == {BATTERY_EMPTY - 1, BATTERY_EMPTY, BATTERY_EMPTY + 1}

(* no handler ran in the last step *)
NoHandler == ERROR + 1

(* The places in PicoBeacon._state_transmit at which an interrupt handler  *)
(* can run between two statements touching the pending alerts: in the for  *)
(* loop that ORs them into alert_mask, before the clear() that follows the *)
(* loop, and before the build call.                                        *)
PcIdle == "idle"
PcLoop == "loop"
PcClear == "clear"
PcBuild == "build"

----------------------------------------------------------------------------
(* The object state as one record; exc is the exception in flight, if any. *)
Self ==
    [state |-> state, operating_mode |-> operating_mode,
     rf_enabled |-> rf_enabled, retry_count |-> retry_count,
     last_transmit_time |-> last_transmit_time,
     error_message |-> error_message, is_moving |-> is_moving,
     motion_woke_us |-> motion_woke_us,
     motion_timeout_start |-> motion_timeout_start,
     motion_detected |-> motion_detected,
     deployment_mode |-> deployment_mode,
     continuous_mode |-> continuous_mode,
     reboot_requested |-> reboot_requested,
     log_upload_requested |-> log_upload_requested,
     status_requested |-> status_requested,
     locate_requested |-> locate_requested,
     pending_alerts |-> pending_alerts, sequence |-> sequence,
     now |-> now, battery |-> battery, running |-> running,
     messages |-> messages, events |-> events,
     net_op |-> NetNone, handler |-> NoHandler,
     watchdog_fed |-> FALSE, pc |-> pc, alert_mask |-> alert_mask,
     alert_index |-> alert_index,
     motion_since_standby |-> motion_since_standby,
     held_alerts |-> held_alerts, exc |-> NoError]

Apply(r) ==
    /\ state' = r.state
    /\ operating_mode' = r.operating_mode
    /\ rf_enabled' = r.rf_enabled
    /\ retry_count' = r.retry_count
    /\ last_transmit_time' = r.last_transmit_time
    /\ error_message' = r.error_message
    /\ is_moving' = r.is_moving
    /\ motion_woke_us' = r.motion_woke_us
    /\ motion_timeout_start' = r.motion_timeout_start
    /\ motion_detected' = r.motion_detected
    /\ deployment_mode' = r.deployment_mode
    /\ continuous_mode' = r.continuous_mode
    /\ reboot_requested' = r.reboot_requested
    /\ log_upload_requested' = r.log_upload_requested
    /\ status_requested' = r.status_requested
    /\ locate_requested' = r.locate_requested
    /\ pending_alerts' = r.pending_alerts
    /\ sequence' = r.sequence
    /\ now' = r.now
    /\ battery' = r.battery
    /\ running' = r.running
    /\ messages' = r.messages
    /\ events' = r.events
    /\ net_op' = r.net_op
    /\ handler' = r.handler
    /\ watchdog_fed' = r.watchdog_fed
    /\ pc' = r.pc
    /\ alert_mask' = r.alert_mask
    /\ alert_index' = r.alert_index
    /\ motion_since_standby' = r.motion_since_standby
    /\ held_alerts' = IF r.pending_alerts = <<>> THEN {} ELSE r.held_alerts
    /\ UNCHANGED <<buffer, source_type, strict_bytes, raised, plain, calls,
                   build_args, kept, ts_in, ts_bytes, ts_out, cipher, rates>>

(* What one loop iteration reads from its collaborators. *)
TickInputs ==
    [sensor_moving : BOOLEAN,   \* motion_sensor.is_moving()
     gps_valid : BOOLEAN,       \* gps.valid after gps.update()
     connected : BOOLEAN,       \* network.is_connected()
     connect_ok : BOOLEAN,      \* network.connect(timeout_sec=30)
     send_ok : BOOLEAN,         \* network.send_tcp(...)
     fault : Faults]            \* the call that raises, if any

----------------------------------------------------------------------------
(* A variant of is_battery_critical that misses the boundary voltage *)
is_battery_critical_strict(voltage) == voltage < BATTERY_EMPTY

(* PowerManager.is_battery_critical *)
is_battery_critical(voltage) == voltage <= BATTERY_EMPTY

(* alert_mask |= alert_type, on naturals *)
RECURSIVE BitOr(_, _)
BitOr(a, b) ==
    IF a = 0 THEN b
    ELSE IF b = 0 THEN a
    ELSE (IF a % 2 = 1 \/ b % 2 = 1 THEN 1 ELSE 0)
         + 2 * BitOr(a \div 2, b \div 2)

(* the loop of _state_transmit that folds the pending alerts into a mask *)
RECURSIVE AlertMask(_)
AlertMask(alerts) ==
    IF alerts = <<>> THEN 0
    ELSE BitOr(Head(alerts), AlertMask(Tail(alerts)))

(* CiNetMessage.build(self, gps_data, device_status=None): the positional  *)
(* arguments it accepts besides self.                                       *)
BuildMinArgs == 1
BuildMaxArgs == 2
BuildAcceptsArgs(n) == n >= BuildMinArgs /\ n <= BuildMaxArgs

(* self.protocol.build(gps_data, self.device_status.to_dict(), alert_mask) *)
TransmitBuildArgs == 3

(* DeviceStatus.alerts: set to 0 by the constructor and written nowhere *)
DeviceStatusAlerts == 0

(* CiNetMessage.build: the sequence counter after the call and the fields  *)
(* of the returned message the controller's claims are about (byte 4 and   *)
(* the plaintext alert field, bytes 144-145, taken from the status dict).  *)
build(seq, status_alerts) ==
    LET next == (seq + 1) % 256
    IN [sequence |-> next,
        message |-> [seq |-> next, alerts |-> status_alerts]]

----------------------------------------------------------------------------
(* The message codec: protocol/pack.py and protocol/cinet_message.py       *)

(* CiNetMessage class constants *)
MSG_LENGTH == 149
ENCRYPTED_LENGTH == 96
ENCRYPTED_BLOCKS == 12
START_BYTE == 36
PACKET_TYPE == 85
CINET_TYPE == 68
MESSAGE_TYPE == 2
ALARM_DEFAULT == 255
MILLITAG_SPECIFIC_LEN == 46

(* Values of the history variables before the first call *)
None == <<>>
NoMessage == [call |-> 0]

(* A byte string is a function from 0 .. n-1 to 0 .. 255, as a bytearray.  *)
Bytes == 0 .. 255
ZeroBytes(n) == [i \in 0 .. n - 1 |-> 0]

(* the characters of a string as their codes, null-padded to n bytes: *)
(* buf = bytearray(n); buf[i] = ord(c) for the characters of str[:n-1]     *)
PaddedBytes(codes, n) ==
    [i \in 0 .. n - 1 |->
        IF i < Len(codes) /\ i < n - 1 THEN codes[i + 1] ELSE 0]

(* Python's x >> n and x & (2^n - 1) on integers of either sign *)
Shr(x, n) == x \div (2 ^ n)
Low(x, n) == x % (2 ^ n)
(* Python's ~x *)
BitNot(x) == -x - 1
(* Python's int(x) of the quotient a / b: truncation toward zero *)
TruncDiv(a, b) == IF a >= 0 THEN a \div b ELSE -((-a) \div b)

(* pack.pack2: the byte stores it makes, as <<offset, value>> pairs *)
pack2(offset, value) ==
    << <<offset, Low(Shr(value, 8), 8)>>, <<offset + 1, Low(value, 8)>> >>

(* pack.pack4 *)
pack4(offset, value) ==
    << <<offset, Low(Shr(value, 24), 8)>>,
       <<offset + 1, Low(Shr(value, 16), 8)>>,
       <<offset + 2, Low(Shr(value, 8), 8)>>,
       <<offset + 3, Low(value, 8)>> >>

(* pack.pack_signed4: value & 0xFFFFFFFF replaces a negative value by the  *)
(* unsigned number with the same low 32 bits, so the four bytes pack4      *)
(* takes are those of the value itself (Shr and Low are Python's >> and &  *)
(* on negative integers too)                                               *)
pack_signed4(offset, value) == pack4(offset, value)

(* the stores of buf[offset : offset + n] = data *)
SliceStores(offset, data) ==
    [k \in 1 .. Cardinality(DOMAIN data) |-> <<offset + k - 1, data[k - 1]>>]

(* A variant of the timestamp encoder that keeps only the low two bits of  *)
(* the minute in byte 3                                                    *)
_encode_datong_timestamp_short_minute(year, month, day, hour, minute, second) ==
    [i \in 0 .. 4 |->
        CASE i = 0 -> BitOr(Low(day, 5) * 8, Low(Shr(month, 1), 3))
          [] i = 1 -> BitOr(Low(year - 1980, 7), Low(month, 1) * 128)
          [] i = 2 -> BitOr(Low(hour, 5) * 8, Low(Shr(minute, 3), 3))
          [] i = 3 -> BitOr(Low(minute, 2) * 32, Low(Shr(second, 1), 5))
          [] i = 4 -> Low(second, 1) * 128]

(* CiNetMessage._encode_datong_timestamp *)
_encode_datong_timestamp(year, month, day, hour, minute, second) ==
    [i \in 0 .. 4 |->
        CASE i = 0 -> BitOr(Low(day, 5) * 8, Low(Shr(month, 1), 3))
          [] i = 1 -> BitOr(Low(year - 1980, 7), Low(month, 1) * 128)
          [] i = 2 -> BitOr(Low(hour, 5) * 8, Low(Shr(minute, 3), 3))
          [] i = 3 -> BitOr(Low(minute, 3) * 32, Low(Shr(second, 1), 5))
          [] i = 4 -> Low(second, 1) * 128]

(* CiNetMessage.decode_datong_timestamp *)
decode_datong_timestamp(ts) ==
    [year |-> Low(ts[1], 7) + 1980,
     month |-> BitOr(Low(ts[0], 3) * 2, Low(Shr(ts[1], 7), 1)),
     day |-> Low(Shr(ts[0], 3), 5),
     hour |-> Low(Shr(ts[2], 3), 5),
     minute |-> BitOr(Low(ts[2], 3) * 8, Low(Shr(ts[3], 5), 3)),
     second |-> BitOr(Low(ts[3], 5) * 2, Low(Shr(ts[4], 7), 1))]

(* CRC16.calculate(buf, offset, length): protocol/crc.py is not part of    *)
(* the sources; the checksum is modelled by its contract, a deterministic  *)
(* 16-bit value that depends on every byte of the range and on their       *)
(* order: a running sum of the bytes in the low byte and the running sum   *)
(* of those sums in the high byte.                                         *)
RECURSIVE SumBytes(_, _, _)
SumBytes(buf, lo, hi) ==
    IF lo > hi THEN 0
    ELSE IF lo = hi THEN buf[lo] + 1
    ELSE SumBytes(buf, lo, (lo + hi) \div 2)
         + SumBytes(buf, ((lo + hi) \div 2) + 1, hi)

RECURSIVE SumWeighted(_, _, _, _)
SumWeighted(buf, lo, hi, end) ==
    IF lo > hi THEN 0
    ELSE IF lo = hi THEN (end - lo) * (buf[lo] + 1)
    ELSE SumWeighted(buf, lo, (lo + hi) \div 2, end)
         + SumWeighted(buf, ((lo + hi) \div 2) + 1, hi, end)

CRC16_calculate(buf, offset, length) ==
    256 * (SumWeighted(buf, offset, offset + length - 1, offset + length) % 256)
    + (SumBytes(buf, offset, offset + length - 1) % 256)

(* config "passphrase" at its default "fredfred", as character codes *)
Passphrase == <<102, 114, 101, 100, 102, 114, 101, 100>>

(* blowfish.derive_key: protocol/blowfish.py is not part of the sources;   *)
(* the derivation is modelled by its contract, a 32-byte key that is a     *)
(* function of the passphrase                                              *)
derive_key(passphrase) ==
    [i \in 0 .. 31 |->
        (passphrase[(i % Len(passphrase)) + 1] * (i + 3)) % 256]

(* Blowfish.encrypt(buf, offset, blocks): modelled by its contract, a      *)
(* keyed bijection on 8-byte blocks applied in place to each block on its  *)
(* own                                                                     *)
Blowfish_encrypt(key, buf, offset, blocks) ==
    [i \in DOMAIN buf |->
        IF i >= offset /\ i < offset + 8 * blocks
        THEN LET first == offset + 8 * ((i - offset) \div 8)
                 k == (i - offset) % 8
             IN (buf[first + ((k + 1) % 8)] + key[k] + key[8 + k]) % 256
        ELSE buf[i]]

(* A variant of Blowfish.decrypt that undoes one of the two key bytes only *)
Blowfish_decrypt_half_key(key, buf, offset, blocks) ==
    [i \in DOMAIN buf |->
        IF i >= offset /\ i < offset + 8 * blocks
        THEN LET first == offset + 8 * ((i - offset) \div 8)
                 k == ((i - offset) + 7) % 8
             IN (buf[first + k] - key[k]) % 256
        ELSE buf[i]]

(* Blowfish.decrypt(buf, offset, blocks): the inverse bijection *)
Blowfish_decrypt(key, buf, offset, blocks) ==
    [i \in DOMAIN buf |->
        IF i >= offset /\ i < offset + 8 * blocks
        THEN LET first == offset + 8 * ((i - offset) \div 8)
                 k == ((i - offset) + 7) % 8
             IN (buf[first + k] - key[k] - key[8 + k]) % 256
        ELSE buf[i]]

(* ConfigManager.get_cinet_key_bytes for the default "06.EA.83.A3" *)
get_cinet_key_bytes == ((6 * 256 + 234) * 256 + 131) * 256 + 163

(* ConfigManager.get_serial_bytes for the default "PICO00000001" *)
get_serial_bytes ==
    PaddedBytes(<<80, 73, 67, 79, 48, 48, 48, 48, 48, 48, 48, 49>>, 24)

(* ConfigManager.get_client_name_bytes for the default "Pico Beacon" *)
get_client_name_bytes ==
    PaddedBytes(<<80, 105, 99, 111, 32, 66, 101, 97, 99, 111, 110>>, 20)

(* ConfigManager.get_source_type_bytes: src[:11] in a bytearray(12) *)
get_source_type_bytes(src) == PaddedBytes(src, 12)

(* ConfigManager.get_operator_bytes: "Pico" in a bytearray(8) *)
get_operator_bytes == PaddedBytes(<<80, 105, 99, 111>>, 8)

(* config "source_type": the default "Millitag" and an 11-character name,  *)
(* the longest the configuration allows ("PicoBeacon2")                    *)
SourceTypeDefault == <<77, 105, 108, 108, 105, 116, 97, 103>>
SourceTypeLongest == <<80, 105, 99, 111, 66, 101, 97, 99, 111, 110, 50>>

(* config "fw_version_major", "fw_version_minor", "fw_version_patch" *)
FwVersion == <<2, 0, 0>>

(* gps_data as GPSData.to_dict() returns it.  Floats are carried as scaled *)
(* integers: latitude and longitude in millionths of a degree, speed,      *)
(* heading and hdop in tenths; heading and timestamp are a set, empty for  *)
(* None.                                                                   *)
GpsNoFix ==
    [latitude |-> 0, longitude |-> 0, speed |-> 0, heading |-> {},
     hdop |-> 999, satellites |-> 0, valid |-> FALSE, timestamp |-> {}]

GpsFix ==
    [latitude |-> 53827200, longitude |-> -1664700, speed |-> 427,
     heading |-> {905}, hdop |-> 15, satellites |-> 10, valid |-> TRUE,
     timestamp |-> {<<2024, 12, 26, 4, 37, 1>>}]

(* device_status: DeviceStatus().to_dict() with its constructor defaults *)
StatusDefaults ==
    [battery |-> 100, temperature |-> 20, rssi |-> 0, motion |-> 0,
     status_flags |-> 0, lac |-> 0, cell_id |-> 0, act |-> 7,
     beacon_mode |-> 0, motion_sensitivity |-> 1, wake_trigger |-> 0,
     output_state |-> 0, geozone |-> 0, input_state |-> 0, alerts |-> 0]

(* a status snapshot of a device in use *)
StatusInUse ==
    [StatusDefaults EXCEPT !.battery = 87, !.temperature = -5, !.rssi = -70,
                           !.motion = 1, !.lac = 4660, !.cell_id = 22136,
                           !.beacon_mode = 2, !.input_state = 1,
                           !.alerts = 17]

(* a status with 16-bit and clamped fields out of their range *)
StatusWide ==
    [StatusDefaults EXCEPT !.battery = 150, !.status_flags = 65536 + 5,
                           !.lac = 70000, !.cell_id = -1, !.alerts = 65536 + 16]

(* a status with a one-byte code out of 0 .. 255 *)
StatusMotionHigh == [StatusDefaults EXCEPT !.motion = 256]
StatusGeozoneLow == [StatusDefaults EXCEPT !.battery = -3, !.geozone = -1]

(* status = device_status or {}  followed by status.get(key, default) *)
StatusOf(device_status) ==
    IF device_status = {} THEN StatusDefaults
    ELSE CHOOSE s \in device_status : TRUE

(* The stores numbered lo .. hi made on buf in program order, each keeping *)
(* the low 8 bits of its value: the first half, then the second half on    *)
(* the buffer the first half leaves                                        *)
RECURSIVE MakeStores(_, _, _, _)
MakeStoresOn(left, stores, lo, hi) ==
    IF left[0] \in Bytes THEN MakeStores(left, stores, lo, hi) ELSE left

MakeStores(buf, stores, lo, hi) ==
    IF lo > hi THEN buf
    ELSE IF lo = hi
    THEN [buf EXCEPT ![stores[lo][1]] = Low(stores[lo][2], 8)]
    ELSE MakeStoresOn(MakeStores(buf, stores, lo, (lo + hi) \div 2),
                      stores, ((lo + hi) \div 2) + 1, hi)

(* The number of the first store that raises, Len(stores) + 1 if none. *)
FirstRaising(stores, strict) ==
    IF strict /\ \E k \in 1 .. Len(stores) : stores[k][2] \notin Bytes
    THEN CHOOSE k \in 1 .. Len(stores) :
            /\ stores[k][2] \notin Bytes
            /\ \A j \in 1 .. k - 1 : stores[j][2] \in Bytes
    ELSE Len(stores) + 1

(* The stores bytearray accepts.  CPython raises ValueError for a value    *)
(* outside 0 .. 255 (strict); MicroPython keeps its low 8 bits.  The       *)
(* result is the buffer after the stores made and whether one raised.      *)
StoresUpTo(buf, stores, stop) ==
    [buf |-> MakeStores(buf, stores, 1, stop - 1),
     raised |-> stop <= Len(stores)]

ApplyStores(buf, stores, strict) ==
    StoresUpTo(buf, stores, FirstRaising(stores, strict))

(* CiNetMessage._build_header: its stores in program order *)
HeaderStores(seq, src_type, datong_ts) ==
    << <<0, START_BYTE>>, <<1, PACKET_TYPE>> >>
    \o pack2(2, MSG_LENGTH)
    \o << <<4, seq>> >>
    \o pack4(5, get_cinet_key_bytes)
    \o << <<9, CINET_TYPE>> >>
    \o SliceStores(10, get_source_type_bytes(src_type))
    \o SliceStores(22, get_serial_bytes)
    \o SliceStores(46, datong_ts)

(* A variant of _build_header that writes the sequence number it read      *)
(* before the increment                                                    *)
_build_header_old_sequence(buf, seq, src_type, datong_ts) ==
    ApplyStores(buf, HeaderStores((seq + 255) % 256, src_type, datong_ts),
                FALSE).buf

(* A variant of _build_header that copies only the first 8 bytes of the    *)
(* source type                                                             *)
_build_header_short_source(buf, seq, src_type, datong_ts) ==
    ApplyStores(buf,
                HeaderStores(seq, SubSeq(src_type, 1, 8), datong_ts),
                FALSE).buf

(* CiNetMessage._build_header *)
_build_header(buf, seq, src_type, datong_ts) ==
    ApplyStores(buf, HeaderStores(seq, src_type, datong_ts), FALSE).buf

(* CiNetMessage._build_payload: its stores in program order *)
PayloadStores(gps_data, device_status, datong_ts) ==
    LET status == StatusOf(device_status)
        lat_int == TruncDiv(gps_data.latitude * 6, 100)
        lon_int == TruncDiv(gps_data.longitude * 6, 100)
        heading == IF gps_data.heading = {} THEN 65535
                   ELSE Low((CHOOSE h \in gps_data.heading : TRUE) * 10, 16)
    IN pack2(51, ENCRYPTED_LENGTH)
       \o << <<53, 0>>, <<54, 0>>, <<55, MESSAGE_TYPE>> >>
       \o SliceStores(56, get_client_name_bytes)
       \o pack_signed4(76, lat_int)
       \o pack_signed4(80, lon_int)
       \o pack2(84, heading)
       \o pack2(86, Low(TruncDiv(gps_data.speed, 10), 16))
       \o SliceStores(88, datong_ts)
       \o pack2(93, Low(gps_data.hdop * 10, 16))
       \o << <<95, IF gps_data.valid THEN 1 ELSE 0>>,
             <<96, status.motion>>,
             <<97, ALARM_DEFAULT>> >>
       \o pack2(98, MILLITAG_SPECIFIC_LEN)
       \o << <<100, IF status.battery < 0 THEN 0
                    ELSE IF status.battery > 100 THEN 100
                    ELSE status.battery>>,
             <<101, Low(status.temperature, 8)>>,
             <<102, Low(gps_data.satellites, 8)>> >>
       \o pack4(103, status.rssi)
       \o pack4(107, 0)
       \o pack2(111, status.status_flags)
       \o pack2(113, status.lac)
       \o pack2(115, status.cell_id)
       \o pack2(117, status.act)
       \o SliceStores(119, get_operator_bytes)
       \o << <<127, FwVersion[1]>>, <<128, FwVersion[2]>>,
             <<129, FwVersion[3]>> >>
       \o pack4(130, 0)
       \o pack4(134, 0)
       \o << <<138, status.beacon_mode>>,
             <<139, status.motion_sensitivity>>,
             <<140, status.wake_trigger>>,
             <<141, status.output_state>>,
             <<142, status.geozone>>,
             <<143, status.input_state>> >>
       \o pack2(144, status.alerts)
       \o << <<146, 0>> >>

(* CiNetMessage._build_payload *)
_build_payload(buf, gps_data, device_status, datong_ts, strict) ==
    ApplyStores(buf, PayloadStores(gps_data, device_status, datong_ts),
                strict)

(* self.sequence = (self.sequence + 1) & 0xFF, with a 7-bit mask *)
next_sequence_7bit(seq) == Low(seq + 1, 7)

(* self.sequence = (self.sequence + 1) & 0xFF *)
next_sequence(seq) == Low(seq + 1, 8)

(* the two bytes build stores for a checksum: buf[at] = (~crc) & 0xFF and  *)
(* buf[at + 1] = (~(crc >> 8)) & 0xFF                                      *)
store_checksum_high_first(buf, at, crc_value) ==
    [buf EXCEPT ![at] = Low(BitNot(Shr(crc_value, 8)), 8),
                ![at + 1] = Low(BitNot(crc_value), 8)]

store_checksum(buf, at, crc_value) ==
    [buf EXCEPT ![at] = Low(BitNot(crc_value), 8),
                ![at + 1] = Low(BitNot(Shr(crc_value, 8)), 8)]

(* lines 95-98: the payload checksum over the 92 bytes from 55 on *)
payload_checksum(buf) ==
    store_checksum(buf, 53, CRC16_calculate(buf, 55, 92))

(* lines 103-106: the message checksum over the first 147 bytes *)
message_checksum(buf) ==
    store_checksum(buf, 147, CRC16_calculate(buf, 0, 147))

(* A variant of the integrity steps that encrypts before it computes the   *)
(* payload checksum                                                        *)
build_integrity_encrypt_first(buf, key) ==
    message_checksum(
        payload_checksum(Blowfish_encrypt(key, buf, 51, ENCRYPTED_BLOCKS)))

(* A variant of the integrity steps that computes the message checksum     *)
(* before it encrypts                                                      *)
build_integrity_checksum_first(buf, key) ==
    Blowfish_encrypt(key, message_checksum(payload_checksum(buf)), 51,
                     ENCRYPTED_BLOCKS)

(* CiNetMessage.build from the payload checksum on (lines 95-106) *)
build_integrity(buf, key) ==
    message_checksum(
        Blowfish_encrypt(key, payload_checksum(buf), 51, ENCRYPTED_BLOCKS))

(* build's result: the sequence counter and the buffer after the call,     *)
(* whether the call raised instead of returning, and the buffer as it was  *)
(* when _build_payload was done (plain)                                    *)
build_return(next, p) ==
    [sequence |-> next, raised |-> p.raised, plain |-> p.buf,
     buffer |-> IF p.raised THEN p.buf
                ELSE build_integrity(p.buf, derive_key(Passphrase))]

(* lines 87-93 of build *)
build_fields(next, buf, src_type, gps_data, device_status, strict, datong_ts) ==
    build_return(next,
                 _build_payload(_build_header(buf, next, src_type, datong_ts),
                                gps_data, device_status, datong_ts, strict))

(* line 87 of build, for the timestamp lines 80-85 choose *)
build_timestamp(t) ==
    _encode_datong_timestamp(t[1], t[2], t[3], t[4], t[5], t[6])

(* CiNetMessage.build *)
CiNetMessage_build(seq, buf, src_type, gps_data, device_status, strict) ==
    build_fields(next_sequence(seq), buf, src_type, gps_data, device_status,
                 strict,
                 build_timestamp(IF gps_data.timestamp = {}
                                 THEN <<2024, 1, 1, 0, 0, 0>>
                                 ELSE CHOOSE t \in gps_data.timestamp : TRUE))

----------------------------------------------------------------------------
(* A variant of _update_motion_state in which a motion event seen by the  *)
(* poll sets the flag without restarting the timeout                       *)
_update_motion_state_no_restart(self, in) ==
    LET detected == self.motion_detected \/ in.sensor_moving
        s1 == [self EXCEPT !.motion_detected = FALSE]
        s2 == IF detected THEN [s1 EXCEPT !.is_moving = TRUE] ELSE s1
    IN IF s2.is_moving /\ s2.now - s2.motion_timeout_start > MotionTimeout
       THEN [s2 EXCEPT !.is_moving = FALSE]
       ELSE s2

(* PicoBeacon._update_motion_state *)
_update_motion_state(self, in) ==
    LET detected == self.motion_detected \/ in.sensor_moving
        s1 == [self EXCEPT !.motion_detected = FALSE]
        s2 == IF detected
              THEN [s1 EXCEPT !.is_moving = TRUE,
                              !.motion_timeout_start = self.now]
              ELSE s1
    IN IF s2.is_moving /\ s2.now - s2.motion_timeout_start > MotionTimeout
       THEN [s2 EXCEPT !.is_moving = FALSE]
       ELSE s2

(* A variant of _check_deployment_mode that ends the window one time unit *)
(* early                                                                   *)
_check_deployment_mode_early(self) ==
    IF ~self.deployment_mode THEN self
    ELSE IF self.now - StartupTime >= DeploymentDuration
         THEN [self EXCEPT !.deployment_mode = FALSE]
         ELSE self

(* PicoBeacon._check_deployment_mode *)
_check_deployment_mode(self) ==
    IF ~self.deployment_mode THEN self
    ELSE IF self.now - StartupTime > DeploymentDuration
         THEN [self EXCEPT !.deployment_mode = FALSE]
         ELSE self

(* A variant of _get_report_interval_ms that looks at the motion flag      *)
(* before the standby modes                                                *)
_get_report_interval_ms_motion_first(self) ==
    IF self.deployment_mode THEN RateMoving
    ELSE IF self.continuous_mode THEN RateMoving
    ELSE IF self.is_moving THEN RateMoving
    ELSE IF self.operating_mode = MODE_STANDBY
            \/ self.operating_mode = MODE_FOREVER_STANDBY THEN RateStandby
    ELSE RateStopped

(* PicoBeacon._get_report_interval_ms *)
_get_report_interval_ms(self) ==
    IF self.deployment_mode THEN RateMoving
    ELSE IF self.continuous_mode THEN RateMoving
    ELSE IF self.operating_mode = MODE_STANDBY
            \/ self.operating_mode = MODE_FOREVER_STANDBY THEN RateStandby
    ELSE IF self.is_moving THEN RateMoving
    ELSE RateStopped

(* PicoBeacon._state_startup *)
_state_startup(self) ==
    IF is_battery_critical(self.battery)
    THEN [self EXCEPT !.state = ERROR, !.error_message = BatteryCriticalMsg]
    ELSE [self EXCEPT !.state = INIT]

(* PicoBeacon._state_init *)
_state_init(self) == [self EXCEPT !.state = GPS_ACQUIRE]

(* A variant of _state_gps_acquire that does not look at the operating     *)
(* mode                                                                    *)
_state_gps_acquire_always_connects(self, in) ==
    IF in.gps_valid
    THEN [self EXCEPT !.state = NETWORK_CONNECT]
    ELSE self

(* PicoBeacon._state_gps_acquire *)
_state_gps_acquire(self, in) ==
    IF in.gps_valid
    THEN IF self.operating_mode = MODE_LOGGING
         THEN [self EXCEPT !.state = READY]
         ELSE [self EXCEPT !.state = NETWORK_CONNECT]
    ELSE self

(* PicoBeacon._state_network_connect *)
_state_network_connect(self, in) ==
    IF ~self.rf_enabled THEN [self EXCEPT !.state = READY]
    ELSE IF in.connected THEN [self EXCEPT !.state = READY]
    ELSE IF in.connect_ok
         THEN [self EXCEPT !.net_op = NetConnect, !.state = READY]
         ELSE LET s1 == [self EXCEPT !.net_op = NetConnect,
                                     !.retry_count = @ + 1]
              IN IF s1.retry_count >= MAX_RETRIES
                 THEN [s1 EXCEPT !.state = READY]
                 ELSE s1

(* A variant of _state_ready that looks at the pending alerts before the  *)
(* log upload request                                                      *)
_state_ready_alerts_first(self, in) ==
    IF self.pending_alerts # <<>>
    THEN [self EXCEPT !.state = TRANSMIT]
    ELSE IF self.log_upload_requested
    THEN [self EXCEPT !.log_upload_requested = FALSE, !.state = LOG_UPLOAD]
    ELSE IF self.status_requested
    THEN [self EXCEPT !.status_requested = FALSE, !.state = TRANSMIT]
    ELSE IF self.locate_requested
    THEN [self EXCEPT !.locate_requested = FALSE, !.state = TRANSMIT]
    ELSE IF self.now - self.last_transmit_time >= _get_report_interval_ms(self)
            \/ self.last_transmit_time = 0
    THEN IF self.rf_enabled
         THEN [self EXCEPT !.state = TRANSMIT]
         ELSE [self EXCEPT !.last_transmit_time = self.now]
    ELSE IF self.rf_enabled /\ ~in.connected
    THEN [self EXCEPT !.state = NETWORK_CONNECT]
    ELSE self

(* A variant of _state_ready whose interval rule goes to Transmit without  *)
(* looking at the RF switch                                                *)
_state_ready_ignores_rf(self, in) ==
    IF self.log_upload_requested
    THEN [self EXCEPT !.log_upload_requested = FALSE, !.state = LOG_UPLOAD]
    ELSE IF self.status_requested
    THEN [self EXCEPT !.status_requested = FALSE, !.state = TRANSMIT]
    ELSE IF self.locate_requested
    THEN [self EXCEPT !.locate_requested = FALSE, !.state = TRANSMIT]
    ELSE IF self.pending_alerts # <<>>
    THEN [self EXCEPT !.state = TRANSMIT]
    ELSE IF self.now - self.last_transmit_time >= _get_report_interval_ms(self)
            \/ self.last_transmit_time = 0
    THEN [self EXCEPT !.state = TRANSMIT]
    ELSE IF self.rf_enabled /\ ~in.connected
    THEN [self EXCEPT !.state = NETWORK_CONNECT]
    ELSE self

(* A variant of _state_ready whose status check reads the request flag     *)
(* without clearing it                                                     *)
_state_ready_keeps_status(self, in) ==
    IF self.log_upload_requested
    THEN [self EXCEPT !.log_upload_requested = FALSE, !.state = LOG_UPLOAD]
    ELSE IF self.status_requested
    THEN [self EXCEPT !.state = TRANSMIT]
    ELSE IF self.locate_requested
    THEN [self EXCEPT !.locate_requested = FALSE, !.state = TRANSMIT]
    ELSE IF self.pending_alerts # <<>>
    THEN [self EXCEPT !.state = TRANSMIT]
    ELSE IF self.now - self.last_transmit_time >= _get_report_interval_ms(self)
            \/ self.last_transmit_time = 0
    THEN IF self.rf_enabled
         THEN [self EXCEPT !.state = TRANSMIT]
         ELSE [self EXCEPT !.last_transmit_time = self.now]
    ELSE IF self.rf_enabled /\ ~in.connected
    THEN [self EXCEPT !.state = NETWORK_CONNECT]
    ELSE self

(* PicoBeacon._state_ready *)
_state_ready(self, in) ==
    IF self.log_upload_requested
    THEN [self EXCEPT !.log_upload_requested = FALSE, !.state = LOG_UPLOAD]
    ELSE IF self.status_requested
    THEN [self EXCEPT !.status_requested = FALSE, !.state = TRANSMIT]
    ELSE IF self.locate_requested
    THEN [self EXCEPT !.locate_requested = FALSE, !.state = TRANSMIT]
    ELSE IF self.pending_alerts # <<>>
    THEN [self EXCEPT !.state = TRANSMIT]
    ELSE IF self.now - self.last_transmit_time >= _get_report_interval_ms(self)
            \/ self.last_transmit_time = 0
    THEN IF self.rf_enabled
         THEN [self EXCEPT !.state = TRANSMIT]
         ELSE [self EXCEPT !.last_transmit_time = self.now]
    ELSE IF self.rf_enabled /\ ~in.connected
    THEN [self EXCEPT !.state = NETWORK_CONNECT]
    ELSE self

(* PicoBeacon._state_transmit from the build call on *)
_state_transmit_build(s1, in) ==
    IF ~BuildAcceptsArgs(TransmitBuildArgs)
    THEN [s1 EXCEPT !.exc = BuildTypeErrorMsg]
    ELSE
      LET b == build(s1.sequence, DeviceStatusAlerts)
          s2 == [s1 EXCEPT !.sequence = b.sequence,
                           !.messages = Append(@, b.message),
                           !.net_op = NetSend]
      IN IF in.send_ok
         THEN [s2 EXCEPT !.last_transmit_time = s1.now,
                         !.retry_count = 0, !.state = READY]
         ELSE LET s3 == [s2 EXCEPT !.retry_count = @ + 1]
              IN IF s3.retry_count >= MAX_RETRIES
                 THEN [s3 EXCEPT !.state = NETWORK_CONNECT,
                                 !.retry_count = 0]
                 ELSE s3

(* PicoBeacon._state_transmit *)
_state_transmit(self, in) ==
    IF ~self.rf_enabled
    THEN [self EXCEPT !.last_transmit_time = self.now, !.state = READY]
    ELSE _state_transmit_build([self EXCEPT !.pending_alerts = <<>>], in)

(* PicoBeacon._state_sleep *)
_state_sleep(self) == [self EXCEPT !.state = GPS_ACQUIRE]

(* config "standby_wake_on_motion" *)
standby_wake_on_motion == TRUE

(* A variant of _state_standby without the forever-standby early return *)
_state_standby_no_forever(self) ==
    IF standby_wake_on_motion /\ self.motion_woke_us
    THEN [self EXCEPT !.motion_woke_us = FALSE,
                      !.operating_mode = MODE_ACTIVE,
                      !.state = GPS_ACQUIRE]
    ELSE IF self.now - self.last_transmit_time >= _get_report_interval_ms(self)
    THEN [self EXCEPT !.state = GPS_ACQUIRE]
    ELSE self

(* PicoBeacon._state_standby *)
_state_standby(self) ==
    IF self.operating_mode = MODE_FOREVER_STANDBY THEN self
    ELSE IF standby_wake_on_motion /\ self.motion_woke_us
    THEN [self EXCEPT !.motion_woke_us = FALSE,
                      !.operating_mode = MODE_ACTIVE,
                      !.state = GPS_ACQUIRE]
    ELSE IF self.now - self.last_transmit_time >= _get_report_interval_ms(self)
    THEN [self EXCEPT !.state = GPS_ACQUIRE]
    ELSE self

(* PicoBeacon._state_hibernate *)
_state_hibernate(self) == [self EXCEPT !.state = GPS_ACQUIRE]

(* PicoBeacon._state_log_upload *)
_state_log_upload(self) == [self EXCEPT !.state = READY]

(* A variant of _state_error whose recovery leaves the retry counter alone *)
_state_error_keeps_retries(self) ==
    IF ~is_battery_critical(self.battery)
    THEN [self EXCEPT !.error_message = NoError, !.state = INIT]
    ELSE self

(* PicoBeacon._state_error *)
_state_error(self) ==
    IF ~is_battery_critical(self.battery)
    THEN [self EXCEPT !.retry_count = 0, !.error_message = NoError,
                      !.state = INIT]
    ELSE self

(* PicoBeacon._run_state_machine *)
_run_state_machine(self, in) ==
    CASE self.state = STARTUP -> _state_startup(self)
      [] self.state = INIT -> _state_init(self)
      [] self.state = GPS_ACQUIRE -> _state_gps_acquire(self, in)
      [] self.state = NETWORK_CONNECT -> _state_network_connect(self, in)
      [] self.state = READY -> _state_ready(self, in)
      [] self.state = TRANSMIT -> _state_transmit(self, in)
      [] self.state = SLEEP -> _state_sleep(self)
      [] self.state = STANDBY -> _state_standby(self)
      [] self.state = HIBERNATE -> _state_hibernate(self)
      [] self.state = LOG_UPLOAD -> _state_log_upload(self)
      [] self.state = ERROR -> _state_error(self)

(* The except clause of PicoBeacon.run, entered with the state as the     *)
(* failing call found it and str(e) = msg.                                 *)
run_except(self, msg) ==
    [self EXCEPT !.state = ERROR, !.error_message = msg, !.exc = NoError]

(* A variant of run whose except clause only logs the failure *)
run_except_logs_only(self, in) ==
    LET s0 == [self EXCEPT !.watchdog_fed = TRUE]
    IN IF s0.reboot_requested
       THEN [s0 EXCEPT !.running = FALSE]
       ELSE IF in.fault = FaultGpsUpdate THEN s0
       ELSE LET s1 == _update_motion_state(s0, in)
            IN IF in.fault = FaultIoUpdate THEN s1
               ELSE LET s2 == _check_deployment_mode(s1)
                        s3 == _run_state_machine(
                                  [s2 EXCEPT !.handler = s2.state], in)
                    IN [s3 EXCEPT !.exc = NoError]

(* PicoBeacon.run: one iteration of the loop, with its except clause *)
run(self, in) ==
    LET s0 == [self EXCEPT !.watchdog_fed = TRUE]
    IN IF s0.reboot_requested
       THEN [s0 EXCEPT !.running = FALSE]
       ELSE IF in.fault = FaultGpsUpdate
       THEN run_except(s0, UnexpectedFailureMsg)
       ELSE LET s1 == _update_motion_state(s0, in)
            IN IF in.fault = FaultIoUpdate
               THEN run_except(s1, UnexpectedFailureMsg)
               ELSE LET s2 == _check_deployment_mode(s1)
                        s3 == _run_state_machine(
                                  [s2 EXCEPT !.handler = s2.state], in)
                    IN IF s3.exc # NoError
                       THEN run_except(s3, s3.exc)
                       ELSE IF in.fault = FaultDataLogging
                       THEN run_except(s3, UnexpectedFailureMsg)
                       ELSE s3

----------------------------------------------------------------------------
(* The PicoBeacon methods the command handlers call. *)

(* PicoBeacon.set_rf_enabled *)
set_rf_enabled(self, enabled) == [self EXCEPT !.rf_enabled = enabled]

(* PicoBeacon.set_rf_mode_auto *)
set_rf_mode_auto(self) == [self EXCEPT !.rf_enabled = TRUE]

(* PicoBeacon.enter_standby *)
enter_standby(self) ==
    [self EXCEPT !.operating_mode = MODE_STANDBY, !.state = STANDBY]

(* PicoBeacon.exit_standby *)
exit_standby(self) ==
    [self EXCEPT !.operating_mode = MODE_ACTIVE, !.state = GPS_ACQUIRE]

(* PicoBeacon.enter_hibernate *)
enter_hibernate(self) ==
    [self EXCEPT !.operating_mode = MODE_HIBERNATE, !.state = HIBERNATE]

(* PicoBeacon.enter_forever_standby *)
enter_forever_standby(self) ==
    [self EXCEPT !.operating_mode = MODE_FOREVER_STANDBY, !.state = STANDBY]

(* PicoBeacon.enter_continuous_mode *)
enter_continuous_mode(self) ==
    [self EXCEPT !.continuous_mode = TRUE, !.operating_mode = MODE_CONTINUOUS]

(* A variant of reset_to_config that leaves the Continuous flag alone *)
reset_to_config_keeps_continuous(self) ==
    [self EXCEPT !.rf_enabled = TRUE,
                 !.operating_mode = MODE_ACTIVE, !.state = GPS_ACQUIRE]

(* PicoBeacon.reset_to_config *)
reset_to_config(self) ==
    [self EXCEPT !.continuous_mode = FALSE, !.rf_enabled = TRUE,
                 !.operating_mode = MODE_ACTIVE, !.state = GPS_ACQUIRE]

(* PicoBeacon.request_reboot *)
request_reboot(self) == [self EXCEPT !.reboot_requested = TRUE]

(* PicoBeacon.request_log_upload *)
request_log_upload(self) == [self EXCEPT !.log_upload_requested = TRUE]

(* GPRSCommandHandler._handle_status *)
_handle_status(self) == [self EXCEPT !.status_requested = TRUE]

(* GPRSCommandHandler._handle_locate *)
_handle_locate(self) == [self EXCEPT !.locate_requested = TRUE]

(* PicoBeacon._handle_io_alert, with alert_input_change and alert_tamper   *)
(* at their configured value True                                          *)
_handle_io_alert(self, alert_type) ==
    [self EXCEPT !.pending_alerts = Append(@, alert_type)]

(* PicoBeacon._motion_callback *)
_motion_callback(self) ==
    [self EXCEPT !.motion_woke_us = TRUE, !.is_moving = TRUE,
                 !.motion_timeout_start = self.now]

----------------------------------------------------------------------------
(* Actions *)

WithinBounds(r) ==
    /\ r.retry_count <= MaxRetryCount
    /\ Len(r.messages) <= MaxMessages

(* The inputs an iteration in state s can read; the others are fixed, as   *)
(* no handler of that state looks at them.                                 *)
InputsRead(s) ==
    [sensor_moving : BOOLEAN,
     gps_valid : IF s = GPS_ACQUIRE THEN BOOLEAN ELSE {FALSE},
     connected : IF s \in {NETWORK_CONNECT, READY} THEN BOOLEAN ELSE {FALSE},
     connect_ok : IF s = NETWORK_CONNECT THEN BOOLEAN ELSE {FALSE},
     send_ok : IF s = TRANSMIT THEN BOOLEAN ELSE {FALSE},
     fault : Faults]

(* The external events an iteration reading the inputs in consumes: the   *)
(* sensor reporting motion and an injected failure count as one.           *)
EventsOf(in) == IF in.sensor_moving \/ in.fault # FaultNone THEN 1 ELSE 0

(* One iteration of PicoBeacon.run reading the inputs in.  The iteration   *)
(* is the only step that feeds the watchdog, and it does so first.         *)
TickWith(in) ==
    /\ running
    /\ events + EventsOf(in) <= MaxEvents
    /\ events' = events + EventsOf(in)
    /\ watchdog_fed' = TRUE
    /\ \E r \in {run(Self, in)} :
          /\ WithinBounds(r)
          /\ Apply([r EXCEPT !.events = @ + EventsOf(in)])

Tick == \E in \in InputsRead(state) : TickWith(in)

(* A remote command is delivered between two loop iterations. *)
Deliver(r) ==
    /\ events < MaxEvents
    /\ Apply([r EXCEPT !.events = @ + 1])

CmdResetToConfig == running /\ Deliver(reset_to_config(Self))
CmdHibernate == running /\ Deliver(enter_hibernate(Self))
CmdStandby ==
    /\ running
    /\ Deliver([enter_standby(Self) EXCEPT !.motion_since_standby = FALSE])
CmdClearStandby == running /\ Deliver(exit_standby(Self))
CmdForeverStandby == running /\ Deliver(enter_forever_standby(Self))
CmdContinuous == running /\ Deliver(enter_continuous_mode(Self))
CmdRfOn == running /\ Deliver(set_rf_enabled(Self, TRUE))
CmdRfOff == running /\ Deliver(set_rf_enabled(Self, FALSE))
CmdRfAuto == running /\ Deliver(set_rf_mode_auto(Self))
CmdStatus == running /\ Deliver(_handle_status(Self))
CmdLocate == running /\ Deliver(_handle_locate(Self))
CmdUploadLog == running /\ Deliver(request_log_upload(Self))
CmdReboot == running /\ Deliver(request_reboot(Self))

(* The input or tamper pin interrupt *)
IoAlert ==
    /\ running
    /\ events < MaxEvents
    /\ \E a \in AlertTypes :
          Apply([_handle_io_alert(Self, a) EXCEPT
                    !.held_alerts = IF rf_enabled THEN @ ELSE @ \cup {a},
                    !.events = @ + 1])

(* The motion sensor interrupt: the sensor latches its flag and calls the  *)
(* registered callback.                                                    *)
MotionIrq ==
    /\ running
    /\ events < MaxEvents
    /\ Apply([_motion_callback(Self) EXCEPT !.motion_detected = TRUE,
                                            !.motion_since_standby = TRUE,
                                            !.events = @ + 1])

(* The clock advances. *)
AdvanceTime ==
    /\ running
    /\ now < MaxTime
    /\ Apply([Self EXCEPT !.now = @ + 1])

(* The battery voltage changes. *)
BatteryChange ==
    /\ running
    /\ events < MaxEvents
    /\ \E v \in BatteryLevels \ {battery} :
          Apply([Self EXCEPT !.battery = v, !.events = @ + 1])

(* The operating modes the stored configuration starts the device in:     *)
(* "logging" is set in the configuration only, no command selects it; the  *)
(* other modes are entered by command.                                     *)
StoredModes == {MODE_ACTIVE, MODE_LOGGING}

(* The state after PicoBeacon.__init__; the operating mode and the RF       *)
(* switch come from the stored configuration.                              *)
InitConstructed(stored_rf_enabled) ==
    /\ state = STARTUP
    /\ operating_mode \in StoredModes
    /\ rf_enabled = stored_rf_enabled
    /\ retry_count = 0
    /\ last_transmit_time = 0
    /\ error_message = NoError
    /\ is_moving = FALSE
    /\ motion_woke_us = FALSE
    /\ motion_timeout_start = 0
    /\ motion_detected = FALSE
    /\ deployment_mode = TRUE
    /\ continuous_mode = FALSE
    /\ reboot_requested = FALSE
    /\ log_upload_requested = FALSE
    /\ status_requested = FALSE
    /\ locate_requested = FALSE
    /\ pending_alerts = <<>>
    /\ sequence = 0
    /\ now = StartupTime
    /\ battery \in BatteryLevels
    /\ running = TRUE
    /\ messages = <<>>
    /\ events = 0
    /\ net_op = NetNone
    /\ handler = NoHandler
    /\ watchdog_fed = FALSE
    /\ pc = PcIdle
    /\ alert_mask = 0
    /\ alert_index = 0
    /\ motion_since_standby = FALSE
    /\ held_alerts = {}

(* CiNetMessage.__init__ with the default configuration, on the device *)
InitProtocol ==
    /\ buffer = ZeroBytes(MSG_LENGTH)
    /\ source_type = SourceTypeDefault
    /\ strict_bytes = FALSE
    /\ raised = FALSE
    /\ plain = ZeroBytes(MSG_LENGTH)
    /\ calls = 0
    /\ build_args = None
    /\ kept = NoMessage
    /\ ts_in = None
    /\ ts_bytes = None
    /\ ts_out = None
    /\ cipher = None
    /\ rates = None

(* The state after PicoBeacon.__init__ with rf_enabled at its default. *)
InitController == InitConstructed(TRUE)

Init == InitController /\ InitProtocol

Next ==
    \/ Tick
    \/ CmdResetToConfig
    \/ CmdHibernate
    \/ CmdStandby
    \/ CmdClearStandby
    \/ CmdForeverStandby
    \/ CmdContinuous
    \/ CmdRfOn
    \/ CmdRfOff
    \/ CmdRfAuto
    \/ CmdStatus
    \/ CmdLocate
    \/ CmdUploadLog
    \/ CmdReboot
    \/ IoAlert
    \/ MotionIrq
    \/ AdvanceTime
    \/ BatteryChange

Spec == Init /\ [][Next]_vars

(* The program started from a stored configuration that has rf_enabled     *)
(* false.                                                                  *)
InitRfDisabled == InitConstructed(FALSE) /\ InitProtocol

SpecRfDisabled == InitRfDisabled /\ [][Next]_vars

----------------------------------------------------------------------------
(* The same program with the Transmit handler taken statement by          *)
(* statement, so that the pin interrupts, which MicroPython runs between   *)
(* two bytecodes of the main loop, fall inside it.                         *)

(* The main loop is between two iterations. *)
AtLoopTop == pc = PcIdle

(* A loop iteration that does not reach the RF-enabled part of             *)
(* _state_transmit, taken whole.                                           *)
TickOutsideTransmit ==
    /\ AtLoopTop
    /\ \E in \in InputsRead(state) :
          /\ \/ state # TRANSMIT
             \/ ~rf_enabled
             \/ reboot_requested
             \/ in.fault \in {FaultGpsUpdate, FaultIoUpdate}
          /\ TickWith(in)

(* PicoBeacon.run up to _state_transmit, and _state_transmit up to         *)
(* alert_mask = 0                                                          *)
TransmitBegin ==
    /\ AtLoopTop
    /\ running
    /\ ~reboot_requested
    /\ state = TRANSMIT
    /\ rf_enabled
    /\ \E in \in InputsRead(TRANSMIT) :
          /\ in.fault = FaultNone
          /\ ~in.send_ok
          /\ events + EventsOf(in) <= MaxEvents
          /\ LET s0 == [Self EXCEPT !.watchdog_fed = TRUE]
                 s1 == _update_motion_state(s0, in)
                 s2 == _check_deployment_mode(s1)
             IN Apply([s2 EXCEPT !.handler = TRANSMIT,
                                 !.events = @ + EventsOf(in),
                                 !.pc = PcLoop,
                                 !.alert_mask = 0,
                                 !.alert_index = 0])

(* One pass of the for loop: the list iterator yields the next pending     *)
(* alert, also one appended since the loop began, and its bit is ORed in.  *)
TransmitLoop ==
    /\ pc = PcLoop
    /\ alert_index < Len(pending_alerts)
    /\ Apply([Self EXCEPT
                !.handler = TRANSMIT,
                !.alert_mask = BitOr(@, pending_alerts[alert_index + 1]),
                !.alert_index = @ + 1])

(* The list iterator finds no further alert and the loop ends. *)
TransmitLoopEnd ==
    /\ pc = PcLoop
    /\ alert_index >= Len(pending_alerts)
    /\ Apply([Self EXCEPT !.handler = TRANSMIT, !.pc = PcClear])

(* self._pending_alerts.clear() *)
TransmitClear ==
    /\ pc = PcClear
    /\ Apply([Self EXCEPT !.handler = TRANSMIT, !.pending_alerts = <<>>,
                          !.pc = PcBuild])

(* The build call and the rest of the iteration. *)
TransmitBuild ==
    /\ pc = PcBuild
    /\ \E in \in InputsRead(TRANSMIT) :
          /\ in.fault = FaultNone
          /\ ~in.sensor_moving
          /\ LET r == _state_transmit_build(Self, in)
                 t == IF r.exc # NoError THEN run_except(r, r.exc) ELSE r
             IN /\ WithinBounds(t)
                /\ Apply([t EXCEPT !.handler = TRANSMIT,
                                   !.watchdog_fed = TRUE,
                                   !.pc = PcIdle,
                                   !.alert_mask = 0,
                                   !.alert_index = 0])

(* A remote command; the command handlers are polled by the main loop. *)
Command ==
    \/ CmdResetToConfig
    \/ CmdHibernate
    \/ CmdStandby
    \/ CmdClearStandby
    \/ CmdForeverStandby
    \/ CmdContinuous
    \/ CmdRfOn
    \/ CmdRfOff
    \/ CmdRfAuto
    \/ CmdStatus
    \/ CmdLocate
    \/ CmdUploadLog
    \/ CmdReboot

NextIrq ==
    \/ TickOutsideTransmit
    \/ TransmitBegin
    \/ TransmitLoop
    \/ TransmitLoopEnd
    \/ TransmitClear
    \/ TransmitBuild
    \/ AtLoopTop /\ Command
    \/ IoAlert
    \/ MotionIrq
    \/ AdvanceTime
    \/ BatteryChange

SpecIrq == Init /\ [][NextIrq]_vars

(* PicoBeacon.run is a while True loop: as long as the device has not      *)
(* reset, another iteration follows.                                       *)
SpecFair == Spec /\ WF_vars(Tick)

----------------------------------------------------------------------------
(* The protocol object on its own: calls of CiNetMessage.build and of the  *)
(* timestamp codec, with the controller at rest.                           *)

(* The longest run of build calls followed with varied arguments, the      *)
(* longest run followed with the same arguments, and the last call whose   *)
(* returned message is kept for a later comparison                         *)
MaxCalls == 3
MaxRunCalls == 257
MaxKeptCall == 1

(* build(gps_data, device_status) called with every pair of arguments;     *)
(* device_status is None (the empty set) or a dict                         *)
BuildArguments ==
    {GpsNoFix, GpsFix}
    \X {{}, {StatusInUse}, {StatusWide}, {StatusMotionHigh}, {StatusGeozoneLow}}

(* the arguments of a run of identical calls: the call the tests make      *)
(* (a fix and no status) and a call with a one-byte code out of range      *)
RunArguments == {<<GpsFix, {}>>, <<GpsNoFix, {StatusMotionHigh}>>}

(* buf = self._buffer ... return buf, for one call of build *)
Build(args) ==
    /\ \E r \in {CiNetMessage_build(sequence, buffer, source_type,
                                    args[1], args[2], strict_bytes)} :
          /\ sequence' = r.sequence
          /\ buffer' = r.buffer
          /\ raised' = r.raised
          /\ plain' = r.plain
    /\ calls' = calls + 1
    /\ build_args' = args
    /\ UNCHANGED <<beacon_vars, source_type, strict_bytes, kept, ts_in,
                   ts_bytes, ts_out, cipher, rates>>

(* a call of build with any arguments *)
BuildAny ==
    /\ calls < MaxCalls
    /\ \E args \in BuildArguments : Build(args)

(* the first call of a run of identical calls *)
BuildFirst ==
    /\ calls = 0
    /\ \E args \in RunArguments : Build(args)

(* a further call with the arguments of the call before *)
BuildAgain ==
    /\ calls > 0
    /\ calls < MaxRunCalls
    /\ Build(build_args)

(* The objects a variable of the caller can name: the codec's own          *)
(* bytearray self._buffer, or a bytearray of the caller's.                 *)
RefBuffer == "self._buffer"
RefCopy == "copy"

(* A variant of build's return statement that returns a copy of the buffer *)
build_returns_copy == RefCopy

(* CiNetMessage.build, "buf = self._buffer" ... "return buf": the object   *)
(* the call returns                                                        *)
build_returns == RefBuffer

(* the caller keeps the message the last call returned: the object the     *)
(* call returned (ref) and, to compare with, its bytes at that time        *)
KeepMessage ==
    /\ calls > 0
    /\ calls <= MaxKeptCall
    /\ ~raised
    /\ kept = NoMessage
    /\ kept' = [call |-> calls, args |-> build_args, message |-> buffer,
                ref |-> build_returns]
    /\ UNCHANGED <<beacon_vars, sequence, buffer, raised, plain, calls,
                   build_args, source_type, strict_bytes, ts_in, ts_bytes,
                   ts_out, cipher, rates>>

(* What the caller reads now in the message it kept *)
KeptMessageNow == IF kept.ref = RefBuffer THEN buffer ELSE kept.message

(* The controller at rest and a protocol object just constructed *)
InitAtRest ==
    /\ InitController
    /\ operating_mode = MODE_ACTIVE
    /\ battery = BATTERY_EMPTY + 1
    /\ buffer = ZeroBytes(MSG_LENGTH)
    /\ raised = FALSE
    /\ plain = ZeroBytes(MSG_LENGTH)
    /\ calls = 0
    /\ build_args = None
    /\ kept = NoMessage
    /\ ts_bytes = None
    /\ ts_out = None

(* a protocol object of any configured source type on either platform *)
InitCodec ==
    /\ InitAtRest
    /\ source_type \in {SourceTypeDefault, SourceTypeLongest}
    /\ strict_bytes \in BOOLEAN
    /\ ts_in = None
    /\ cipher = None
    /\ rates = None

SpecCodec == InitCodec /\ [][BuildAny]_vars

(* a run of calls with the same arguments, long enough for the sequence    *)
(* counter to come round                                                   *)
NextCodecRun ==
    \/ BuildFirst
    \/ BuildAgain
    \/ KeepMessage

SpecCodecRun == InitCodec /\ [][NextCodecRun]_vars

(* The arguments of the timestamp codec, in the ranges its docstring gives *)
(* (cinet_message.py lines 272-278): every date at the first and the last  *)
(* second of the day, and every time of day on the first and the last date *)
TimestampInputs ==
    ((1980 .. 2107) \X (1 .. 12) \X (1 .. 31) \X {0} \X {0} \X {0})
    \cup ((1980 .. 2107) \X (1 .. 12) \X (1 .. 31) \X {23} \X {59} \X {59})
    \cup ({1980} \X {1} \X {1} \X (0 .. 23) \X (0 .. 59) \X (0 .. 59))
    \cup ({2107} \X {12} \X {31} \X (0 .. 23) \X (0 .. 59) \X (0 .. 59))

InitTimestamp ==
    /\ InitAtRest
    /\ source_type = SourceTypeDefault
    /\ strict_bytes = FALSE
    /\ ts_in \in TimestampInputs
    /\ cipher = None
    /\ rates = None

(* decode_datong_timestamp(_encode_datong_timestamp(year, ..., second)) *)
TimestampRoundTrip ==
    /\ ts_bytes = None
    /\ ts_bytes' = build_timestamp(ts_in)
    /\ ts_out' = decode_datong_timestamp(ts_bytes')
    /\ UNCHANGED <<beacon_vars, sequence, buffer, raised, plain, calls,
                   build_args, source_type, strict_bytes, kept, ts_in,
                   cipher, rates>>

SpecTimestamp == InitTimestamp /\ [][TimestampRoundTrip]_vars

(* test_blowfish_encrypt_decrypt: buffers of whole 8-byte blocks, among    *)
(* them the first blocks of the test's text "This is a test message!",     *)
(* under the keys derived from the two passphrases of test_key_derivation  *)
MaxBlocks == 2
SampleBlocks ==
    {<<0, 0, 0, 0, 0, 0, 0, 0>>,
     <<255, 255, 255, 255, 255, 255, 255, 255>>,
     <<84, 104, 105, 115, 32, 105, 115, 32>>,
     <<97, 32, 116, 101, 115, 116, 32, 109>>,
     <<0, 1, 2, 3, 4, 5, 6, 7>>,
     <<128, 64, 32, 16, 8, 4, 2, 1>>}

InitCipher ==
    /\ InitAtRest
    /\ source_type = SourceTypeDefault
    /\ strict_bytes = FALSE
    /\ ts_in = None
    /\ rates = None
    /\ \E n \in 1 .. MaxBlocks :
       \E blocks \in [1 .. n -> SampleBlocks] :
       \E passphrase \in {Passphrase,
                          <<100, 105, 102, 102, 101, 114, 101, 110, 116>>} :
          cipher = [key |-> derive_key(passphrase),
                    original |-> [i \in 0 .. 8 * n - 1 |->
                                    blocks[(i \div 8) + 1][(i % 8) + 1]],
                    data |-> [i \in 0 .. 8 * n - 1 |->
                                    blocks[(i \div 8) + 1][(i % 8) + 1]],
                    encrypted |-> None,
                    decrypted |-> FALSE]

(* cipher.encrypt(data, 0, len(data) // 8) on the copy of the original *)
CipherEncrypt ==
    /\ cipher.encrypted = None
    /\ LET out == Blowfish_encrypt(cipher.key, cipher.data, 0,
                                   Cardinality(DOMAIN cipher.data) \div 8)
       IN cipher' = [cipher EXCEPT !.data = out, !.encrypted = out]
    /\ UNCHANGED <<beacon_vars, sequence, buffer, raised, plain, calls,
                   build_args, source_type, strict_bytes, kept, ts_in,
                   ts_bytes, ts_out, rates>>

(* cipher2 = Blowfish(key); cipher2.decrypt(data, 0, len(data) // 8) *)
CipherDecrypt ==
    /\ cipher.encrypted # None
    /\ ~cipher.decrypted
    /\ cipher' = [cipher EXCEPT
                     !.data = Blowfish_decrypt(
                                 cipher.key, cipher.data, 0,
                                 Cardinality(DOMAIN cipher.data) \div 8),
                     !.decrypted = TRUE]
    /\ UNCHANGED <<beacon_vars, sequence, buffer, raised, plain, calls,
                   build_args, source_type, strict_bytes, kept, ts_in,
                   ts_bytes, ts_out, rates>>

SpecCipher == InitCipher /\ [][CipherEncrypt \/ CipherDecrypt]_vars

----------------------------------------------------------------------------
(* The set-rate command: handlers/gprs_commands.py                         *)

(* DEFAULT_CONFIG "gprs_rate_moving_sec", "gprs_rate_stopped_sec",         *)
(* "gprs_rate_standby_sec"                                                 *)
GPRS_RATE_MOVING_SEC == 10
GPRS_RATE_STOPPED_SEC == 60
GPRS_RATE_STANDBY_SEC == 3600

(* The range config.py documents for the moving and the stopped rate *)
RateSecMin == 5
RateSecMax == 86400

(* _handle_set_rate: the rate types *)
RATE_MOVING == 1
RATE_STOPPED == 2
RATE_STANDBY == 3

(* GPRSCommandHandler._handle_set_rate: cfg holds the three configured     *)
(* rates; result is the value the handler returns                          *)
_handle_set_rate(cfg, cmd_data) ==
    IF Len(cmd_data) < 3
    THEN [cfg EXCEPT !.result = FALSE]
    ELSE LET rate_type == cmd_data[1]
             rate_value == 256 * cmd_data[2] + cmd_data[3]
         IN IF rate_type = RATE_MOVING
            THEN [cfg EXCEPT !.moving = rate_value, !.result = TRUE]
            ELSE IF rate_type = RATE_STOPPED
            THEN [cfg EXCEPT !.stopped = rate_value, !.result = TRUE]
            ELSE IF rate_type = RATE_STANDBY
            THEN [cfg EXCEPT !.standby = rate_value, !.result = TRUE]
            ELSE [cfg EXCEPT !.result = FALSE]

(* The commands tried: up to MaxRateCommands of them, of up to MaxCmdLen   *)
(* data bytes drawn from RateBytes (every rate type, unknown types, values *)
(* below, at and above the documented minimum).                            *)
MaxRateCommands == 2
MaxCmdLen == 3
RateBytes == {0, 1, 2, 3, 5, 255}

(* A configuration with the rates of DEFAULT_CONFIG *)
InitRates ==
    /\ InitAtRest
    /\ source_type = SourceTypeDefault
    /\ strict_bytes = FALSE
    /\ ts_in = None
    /\ cipher = None
    /\ rates = [moving |-> GPRS_RATE_MOVING_SEC,
                stopped |-> GPRS_RATE_STOPPED_SEC,
                standby |-> GPRS_RATE_STANDBY_SEC,
                result |-> TRUE, cmd_data |-> None, commands |-> 0]

(* One set-rate command with the data bytes cmd_data *)
SetRate ==
    /\ rates.commands < MaxRateCommands
    /\ \E n \in 0 .. MaxCmdLen :
       \E cmd_data \in [1 .. n -> RateBytes] :
          rates' = [_handle_set_rate(rates, cmd_data) EXCEPT
                       !.cmd_data = cmd_data, !.commands = @ + 1]
    /\ UNCHANGED <<beacon_vars, sequence, buffer, raised, plain, calls,
                   build_args, source_type, strict_bytes, kept, ts_in,
                   ts_bytes, ts_out, cipher>>

SpecRates == InitRates /\ [][SetRate]_vars

----------------------------------------------------------------------------
(* The loop iterations that get past the reboot check, reading the inputs  *)
(* in.                                                                     *)
IterationStarts(in) == ~reboot_requested /\ TickWith(in)

(* The iterations in which no call outside the state handlers fails. *)
IterationRuns(in) == in.fault = FaultNone /\ IterationStarts(in)

(* The iterations of the loop that reach the handler of state s, reading   *)
(* the inputs in: no reboot is pending, so _run_state_machine is called.   *)
HandlerRuns(s, in) == state = s /\ IterationRuns(in)

(* C1: in ConnectNetwork with RF enabled and mode Active, the connect       *)
(* failure that brings the count of failures to MAX_RETRIES (the third of   *)
(* three consecutive failures) moves the controller to Ready, and the retry *)
(* counter is 0 once Ready has been entered.                                *)
C1_ConnectFallbackResetsRetries ==
    [][\A in \in InputsRead(state) :
          (/\ HandlerRuns(NETWORK_CONNECT, in)
           /\ rf_enabled /\ operating_mode = MODE_ACTIVE
           /\ ~in.connected /\ ~in.connect_ok
           /\ retry_count = MAX_RETRIES - 1)
          => (state' = READY /\ retry_count' = 0)]_vars

(* C2: once in Error, the controller stays in Error across every step, be *)
(* it a tick or a remote command, for as long as the battery voltage is at  *)
(* or below the critical threshold.                                         *)
C2_ErrorHeldWhileCritical ==
    [][(state = ERROR /\ battery <= BATTERY_EMPTY /\ battery' <= BATTERY_EMPTY)
          => state' = ERROR]_vars

(* C3: a tick in Startup moves to Error with the cause "Battery critical"  *)
(* when the battery is at or below the critical threshold, and to Init     *)
(* (leaving the error message alone) otherwise; it goes nowhere else.      *)
C3_StartupTick ==
    [][\A in \in InputsRead(state) :
          HandlerRuns(STARTUP, in)
          => IF battery <= BATTERY_EMPTY
             THEN state' = ERROR /\ error_message' = BatteryCriticalMsg
             ELSE state' = INIT /\ error_message' = error_message]_vars

C3_Witness ==
    /\ handler = STARTUP
    /\ state = ERROR
    /\ error_message = BatteryCriticalMsg
    /\ battery = BATTERY_EMPTY

(* C4: a Ready tick acts on exactly one due item, in priority order: a     *)
(* pending log upload goes to UploadLog whatever else is pending; otherwise *)
(* a status or locate request goes to Transmit; otherwise pending alerts go *)
(* to Transmit; in all three cases the lower-priority items are left as     *)
(* they were and the report-interval rule does not stamp the transmit time. *)
C4_ReadyPriority ==
    [][\A in \in InputsRead(state) :
          HandlerRuns(READY, in)
          => IF log_upload_requested
             THEN /\ state' = LOG_UPLOAD
                  /\ ~log_upload_requested'
                  /\ UNCHANGED <<status_requested, locate_requested,
                                 pending_alerts, last_transmit_time>>
             ELSE IF status_requested
             THEN /\ state' = TRANSMIT
                  /\ ~status_requested'
                  /\ UNCHANGED <<locate_requested, pending_alerts,
                                 last_transmit_time>>
             ELSE IF locate_requested
             THEN /\ state' = TRANSMIT
                  /\ ~locate_requested'
                  /\ UNCHANGED <<pending_alerts, last_transmit_time>>
             ELSE IF pending_alerts # <<>>
             THEN /\ state' = TRANSMIT
                  /\ UNCHANGED <<pending_alerts, last_transmit_time>>
             ELSE TRUE]_vars

C4_Witness ==
    /\ handler = READY
    /\ state = LOG_UPLOAD
    /\ ~log_upload_requested
    /\ pending_alerts # <<>>

(* The reporting interval a tick uses: it is computed after the tick has   *)
(* updated the motion and deployment flags.                                *)
IntervalInTick ==
    _get_report_interval_ms(
        [deployment_mode |-> deployment_mode',
         continuous_mode |-> continuous_mode,
         operating_mode |-> operating_mode,
         is_moving |-> is_moving'])

NoHigherPriorityWork ==
    /\ ~log_upload_requested
    /\ ~status_requested
    /\ ~locate_requested
    /\ pending_alerts = <<>>

(* C5: a Ready tick with no higher-priority work, taken when the time since *)
(* the last transmit is at least the reporting interval or no transmit time *)
(* has been recorded yet (last_transmit_time = 0), goes to Transmit if RF is *)
(* enabled; if RF is disabled it stamps the last-transmit time with the     *)
(* current time, stays in Ready, builds no message and leaves the sequence  *)
(* counter alone.                                                           *)
C5_ReadyIntervalRule ==
    [][\A in \in InputsRead(state) :
          (/\ HandlerRuns(READY, in)
           /\ NoHigherPriorityWork
           /\ (now - last_transmit_time >= IntervalInTick
               \/ last_transmit_time = 0))
          => IF rf_enabled
             THEN state' = TRANSMIT /\ UNCHANGED last_transmit_time
             ELSE /\ last_transmit_time' = now
                  /\ state' = READY
                  /\ UNCHANGED <<messages, sequence>>
                  /\ net_op' = NetNone]_vars

C5_Witness ==
    /\ handler = READY
    /\ state = READY
    /\ ~rf_enabled
    /\ last_transmit_time = now
    /\ messages = <<>>
    /\ sequence = 0

(* C6: a Transmit tick taken while RF is disabled or the mode is Logging   *)
(* sends nothing: it stamps the last-transmit time, returns to Ready, makes *)
(* no network send and leaves the sequence counter alone.                   *)
C6_TransmitNoOpWhenRfOffOrLogging ==
    [][\A in \in InputsRead(state) :
          (/\ HandlerRuns(TRANSMIT, in)
           /\ (~rf_enabled \/ operating_mode = MODE_LOGGING))
          => /\ last_transmit_time' = now
             /\ state' = READY
             /\ net_op' # NetSend
             /\ UNCHANGED <<messages, sequence>>]_vars

(* C7: a ConnectNetwork tick taken while the mode is Logging or RF is      *)
(* disabled moves to Ready without calling network.connect.                *)
C7_ConnectSkippedWhenRfOffOrLogging ==
    [][\A in \in InputsRead(state) :
          (/\ HandlerRuns(NETWORK_CONNECT, in)
           /\ (~rf_enabled \/ operating_mode = MODE_LOGGING))
          => (state' = READY /\ net_op' # NetConnect)]_vars

(* C8: a Transmit tick (RF enabled, mode not Logging) whose send fails     *)
(* increments the retry counter; below MAX_RETRIES it stays in Transmit,    *)
(* at MAX_RETRIES it moves to ConnectNetwork with the counter reset to 0.   *)
C8_TransmitSendFailure ==
    [][\A in \in InputsRead(state) :
          (/\ HandlerRuns(TRANSMIT, in)
           /\ rf_enabled /\ operating_mode # MODE_LOGGING
           /\ ~in.send_ok)
          => IF retry_count + 1 < MAX_RETRIES
             THEN state' = TRANSMIT /\ retry_count' = retry_count + 1
             ELSE state' = NETWORK_CONNECT /\ retry_count' = 0]_vars

(* C9: a Transmit tick (RF enabled, mode not Logging) whose send succeeds  *)
(* clears the retry counter, sets the last-transmit time to the current     *)
(* time and moves to Ready.                                                 *)
C9_TransmitSendSuccess ==
    [][\A in \in InputsRead(state) :
          (/\ HandlerRuns(TRANSMIT, in)
           /\ rf_enabled /\ operating_mode # MODE_LOGGING
           /\ in.send_ok)
          => /\ retry_count' = 0
             /\ last_transmit_time' = now
             /\ state' = READY]_vars

(* C10: the pending alerts are emptied only by a step that builds one      *)
(* message whose alert mask is the OR of exactly those alerts, so that     *)
(* every raised alert is reported by exactly one built message.            *)
C10_AlertsClearedWithTheirMessage ==
    [][(pending_alerts # <<>> /\ pending_alerts' = <<>>)
          => /\ Len(messages') = Len(messages) + 1
             /\ messages'[Len(messages')].alerts = AlertMask(pending_alerts)
             /\ state = TRANSMIT]_vars

(* C11: a Transmit tick with RF enabled builds a message, and the alert    *)
(* field of that message (plaintext payload bytes 144-145) is the bitwise  *)
(* OR of the alerts that were pending when the tick started.               *)
C11_AlertFieldIsPendingMask ==
    [][\A in \in InputsRead(state) :
          (HandlerRuns(TRANSMIT, in) /\ rf_enabled)
          => /\ Len(messages') = Len(messages) + 1
             /\ messages'[Len(messages')].alerts = AlertMask(pending_alerts)]_vars

(* The selection of the reporting interval as C12 words it. *)
C12_Selected(deployment, continuous, mode, moving) ==
    IF deployment THEN RateMoving
    ELSE IF continuous THEN RateMoving
    ELSE IF mode \in {MODE_STANDBY, MODE_FOREVER_STANDBY} THEN RateStandby
    ELSE IF moving THEN RateMoving
    ELSE RateStopped

(* C12: the reporting interval is the selection above applied to the       *)
(* current flags, in every state; the Ready and Standby handlers decide    *)
(* "due" with the interval of the flags as the tick has just updated them  *)
(* (nothing cached from an earlier tick); and in mode Active, outside the  *)
(* deployment window and without the Continuous flag, a step that turns    *)
(* the motion flag on turns the interval from the stopped rate to the      *)
(* moving rate.                                                            *)
C12_IntervalIsFreshSelection ==
    /\ [](_get_report_interval_ms(Self) =
            C12_Selected(deployment_mode, continuous_mode, operating_mode,
                         is_moving))
    /\ [][\A in \in InputsRead(state) :
            LET due == now - last_transmit_time >=
                         C12_Selected(deployment_mode', continuous_mode,
                                      operating_mode, is_moving')
            IN /\ (/\ HandlerRuns(READY, in)
                   /\ NoHigherPriorityWork
                   /\ last_transmit_time # 0)
                  => IF due
                     THEN IF rf_enabled THEN state' = TRANSMIT
                          ELSE last_transmit_time' = now
                     ELSE /\ state' # TRANSMIT
                          /\ UNCHANGED last_transmit_time
               /\ (/\ HandlerRuns(STANDBY, in)
                   /\ operating_mode # MODE_FOREVER_STANDBY
                   /\ ~motion_woke_us)
                  => (state' = GPS_ACQUIRE <=> due)]_vars
    /\ [][(/\ operating_mode = MODE_ACTIVE /\ operating_mode' = MODE_ACTIVE
           /\ ~deployment_mode /\ ~deployment_mode'
           /\ ~continuous_mode /\ ~continuous_mode'
           /\ ~is_moving /\ is_moving')
          => /\ _get_report_interval_ms(Self) = RateStopped
             /\ _get_report_interval_ms(Self)' = RateMoving]_vars

(* A Ready tick in mode Active, outside the deployment window, with the   *)
(* motion flag off, found the report not due one moving-rate after the     *)
(* last stamp: it used the stopped rate.                                   *)
C12_Witness ==
    /\ handler = READY
    /\ state = READY
    /\ operating_mode = MODE_ACTIVE
    /\ ~deployment_mode
    /\ ~continuous_mode
    /\ ~is_moving
    /\ NoHigherPriorityWork
    /\ last_transmit_time # 0
    /\ now - last_transmit_time = RateMoving

(* The motion events an iteration sees: the latched interrupt flag or the  *)
(* sensor reporting motion when polled.                                    *)
MotionSeen(in) == motion_detected \/ in.sensor_moving

(* C13: a motion event (the interrupt callback, or the poll of an          *)
(* iteration seeing motion) sets the motion flag and restarts the timeout  *)
(* at the current time; an iteration that sees no motion clears the flag   *)
(* exactly when more than the motion timeout has passed since the last     *)
(* restart and otherwise leaves flag and timeout start alone; the flag     *)
(* goes from true to false only after the timeout, from false to true only *)
(* with a motion event, and nothing else moves the timeout start.          *)
C13_MotionFlagDecay ==
    [][/\ MotionIrq => (is_moving' /\ motion_timeout_start' = now)
       /\ \A in \in InputsRead(state) :
             \/ IF MotionSeen(in)
                THEN is_moving' /\ motion_timeout_start' = now
                ELSE IF is_moving /\ now - motion_timeout_start > MotionTimeout
                THEN ~is_moving' /\ UNCHANGED motion_timeout_start
                ELSE UNCHANGED <<is_moving, motion_timeout_start>>
             \/ ~IterationRuns(in)
       /\ (is_moving /\ ~is_moving')
             => now - motion_timeout_start > MotionTimeout
       /\ (motion_timeout_start' # motion_timeout_start \/ (~is_moving /\ is_moving'))
             => /\ is_moving' /\ motion_timeout_start' = now
                /\ MotionIrq \/ \E in \in InputsRead(state) :
                                   /\ IterationStarts(in)
                                   /\ in.fault # FaultGpsUpdate
                                   /\ MotionSeen(in)]_vars

(* An iteration has cleared a motion flag that an earlier event had set. *)
C13_Witness ==
    /\ handler # NoHandler
    /\ ~is_moving
    /\ ~motion_detected
    /\ motion_timeout_start > 0
    /\ now - motion_timeout_start > MotionTimeout

(* C14: the deployment flag is true from boot for as long as the time      *)
(* since boot does not exceed the deployment window; an iteration that     *)
(* runs after the window has been exceeded leaves it false; and once false *)
(* no step, tick or remote command (reset-to-defaults included), sets it   *)
(* true again.                                                             *)
C14_DeploymentFlag ==
    /\ [](now - StartupTime <= DeploymentDuration => deployment_mode)
    /\ [][/\ ~deployment_mode => ~deployment_mode'
          /\ \A in \in InputsRead(state) :
                (/\ deployment_mode
                 /\ now - StartupTime > DeploymentDuration
                 /\ IterationRuns(in))
                => ~deployment_mode']_vars

(* The window is over, the flag is false, and reset-to-defaults has just   *)
(* put the controller in AcquireFix.                                       *)
C14_Witness ==
    /\ ~deployment_mode
    /\ now - StartupTime > DeploymentDuration
    /\ handler = NoHandler
    /\ state = GPS_ACQUIRE
    /\ operating_mode = MODE_ACTIVE
    /\ events > 0

(* C15: whatever the controller state it is issued in, reset-to-defaults   *)
(* leaves the Continuous flag false, RF enabled, the operating mode Active *)
(* and the controller state AcquireFix.                                    *)
C15_ResetToDefaults ==
    [][CmdResetToConfig
          => /\ ~continuous_mode'
             /\ rf_enabled'
             /\ operating_mode' = MODE_ACTIVE
             /\ state' = GPS_ACQUIRE]_vars

(* Reset-to-defaults was issued in state Error: the recorded cause is      *)
(* still there, the controller is in AcquireFix.                           *)
C15_Witness ==
    /\ handler = NoHandler
    /\ state = GPS_ACQUIRE
    /\ error_message = BatteryCriticalMsg
    /\ operating_mode = MODE_ACTIVE
    /\ rf_enabled
    /\ ~continuous_mode
    /\ events = 1

(* C16: while the operating mode is ForeverStandby and the state Standby,  *)
(* no tick whose handler runs to its end and no interrupt, clock or        *)
(* battery step moves the controller out of Standby or changes the mode:   *)
(* only a remote command does.                                             *)
C16_ForeverStandbyHolds ==
    [][(/\ state = STANDBY
        /\ operating_mode = MODE_FOREVER_STANDBY
        /\ \/ \E in \in InputsRead(state) : HandlerRuns(STANDBY, in)
           \/ IoAlert \/ MotionIrq \/ AdvanceTime \/ BatteryChange)
          => (state' = STANDBY /\ operating_mode' = MODE_FOREVER_STANDBY)]_vars

(* A Standby tick ran in ForeverStandby with a motion wake pending and the *)
(* standby check-in interval elapsed, and the controller is still in       *)
(* Standby.                                                                *)
C16_Witness ==
    /\ handler = STANDBY
    /\ state = STANDBY
    /\ operating_mode = MODE_FOREVER_STANDBY
    /\ motion_woke_us
    /\ ~deployment_mode
    /\ now - last_transmit_time >= RateStandby

(* C17: whenever a tick moves the controller out of Standby to AcquireFix  *)
(* in a mode other than ForeverStandby, by a motion wake or by the         *)
(* periodic check-in, the operating mode is Active afterwards.             *)
C17_StandbyWakeRevertsToActive ==
    [][\A in \in InputsRead(state) :
          (/\ HandlerRuns(STANDBY, in)
           /\ operating_mode # MODE_FOREVER_STANDBY
           /\ state' = GPS_ACQUIRE)
          => operating_mode' = MODE_ACTIVE]_vars

(* C18: a tick in state Error moves to Init with the error message cleared *)
(* and the retry counter reset to 0 if the battery is above the critical   *)
(* threshold; if the battery is still critical it leaves the state Error   *)
(* and the error message and retry counter as they were.                   *)
C18_ErrorTick ==
    [][\A in \in InputsRead(state) :
          HandlerRuns(ERROR, in)
          => IF battery > BATTERY_EMPTY
             THEN /\ state' = INIT
                  /\ error_message' = NoError
                  /\ retry_count' = 0
             ELSE /\ state' = ERROR
                  /\ UNCHANGED <<error_message, retry_count>>]_vars

(* The Error tick has recovered to Init: message cleared, counter 0,       *)
(* battery above the threshold.                                            *)
C18_Witness ==
    /\ handler = ERROR
    /\ state = INIT
    /\ error_message = NoError
    /\ retry_count = 0
    /\ battery > BATTERY_EMPTY

(* C19: every loop iteration feeds the watchdog; an iteration in which a   *)
(* call raises an unexpected failure (one injected around the state        *)
(* handler, or the TypeError of the build call in a Transmit tick) ends    *)
(* with the state Error and the failure text as the error message, and the *)
(* loop keeps running.                                                     *)
C19_FailuresAreContained ==
    [][/\ watchdog_fed' \/ ~Tick
       /\ \/ /\ state' = ERROR
             /\ error_message' \in {UnexpectedFailureMsg, BuildTypeErrorMsg}
             /\ running'
          \/ \A in \in InputsRead(state) :
                in.fault # FaultNone => ~IterationStarts(in)
       /\ (rf_enabled /\ state = TRANSMIT)
             => \A in \in InputsRead(state) :
                   HandlerRuns(TRANSMIT, in)
                   => /\ state' = ERROR
                      /\ error_message' = BuildTypeErrorMsg
                      /\ running']_vars

(* A failure after the Ready handler had run: the state is Error with the  *)
(* failure recorded, the watchdog was fed and the loop is still running.   *)
C19_Witness ==
    /\ handler = READY
    /\ state = ERROR
    /\ error_message = UnexpectedFailureMsg
    /\ watchdog_fed
    /\ running

(* C20: with the pin interrupts falling between the statements of the     *)
(* Transmit handler, every alert the handler removes from the pending      *)
(* alerts is in the alert mask it computed, and the message the handler    *)
(* then builds carries that mask: an alert raised during the tick is in    *)
(* the tick's message or still pending afterwards.                         *)
C20_NoAlertLostInTransmit ==
    [][/\ TransmitClear
          => BitOr(alert_mask, AlertMask(pending_alerts)) = alert_mask
       /\ TransmitBuild
          => /\ Len(messages') = Len(messages) + 1
             /\ messages'[Len(messages')].alerts = alert_mask]_vars

(* C28: a tick in AcquireFix goes to Ready on a valid fix when the         *)
(* operating mode is Logging, to ConnectNetwork on a valid fix in every    *)
(* other mode, and stays in AcquireFix without a valid fix.                *)
C28_AcquireFixTick ==
    [][\A in \in InputsRead(state) :
          HandlerRuns(GPS_ACQUIRE, in)
          => state' = IF ~in.gps_valid THEN GPS_ACQUIRE
                      ELSE IF operating_mode = MODE_LOGGING THEN READY
                      ELSE NETWORK_CONNECT]_vars

(* The AcquireFix tick of a device in Logging mode went to Ready. *)
C28_Witness ==
    /\ handler = GPS_ACQUIRE
    /\ state = READY
    /\ operating_mode = MODE_LOGGING

(* No step of the controller enters the state Sleep: no statement of the   *)
(* program assigns State.SLEEP.                                            *)
SleepNeverEntered == state # SLEEP

(* C29: on a device configured to sleep between reports, a Transmit tick   *)
(* whose send succeeds moves the controller to Sleep.  The program reads   *)
(* no such option, so the formula is stated for every configuration.       *)
C29_SuccessfulTransmitSleeps ==
    [][\A in \in InputsRead(state) :
          (rf_enabled /\ in.send_ok /\ HandlerRuns(TRANSMIT, in))
          => state' = SLEEP]_vars

(* C30: when the battery is at or below the critical threshold while the   *)
(* controller is in any state other than Startup and Error, a later tick   *)
(* moves the controller to Error, unless the battery has recovered or the  *)
(* device has reset before.                                                *)
C30_CriticalBatteryForcesError ==
    (state \notin {STARTUP, ERROR} /\ battery <= BATTERY_EMPTY)
       ~> (state = ERROR \/ battery > BATTERY_EMPTY \/ ~running)

----------------------------------------------------------------------------
(* C21: every call of build, whether it returns or raises, moves the       *)
(* sequence counter on by exactly one modulo 256 (255 wraps to 0) before   *)
(* it writes a field: byte 4 of the header it writes, and so of the        *)
(* message it returns, is the new counter.  Consecutive calls therefore    *)
(* carry s, s+1, s+2 modulo 256.                                           *)
C21_SequenceIncrements ==
    [][calls' = calls + 1
       => /\ sequence' = (sequence + 1) % 256
          /\ (sequence = 255) => (sequence' = 0)
          /\ plain'[4] = sequence'
          /\ buffer'[4] = sequence']_vars

(* the call that wraps the counter has returned *)
C21_Witness ==
    /\ calls = 256
    /\ ~raised
    /\ sequence = 0
    /\ buffer[4] = 0

(* C22 as stated: two different calls of build with the same arguments     *)
(* never return bit-identical messages.                                    *)
C22_NeverIdentical ==
    (/\ kept # NoMessage
     /\ calls > kept.call
     /\ ~raised
     /\ build_args = kept.args)
    => buffer # kept.message

(* C22, amended: two calls of build with the same arguments whose numbers  *)
(* differ by less than 256 (or by any number that is no multiple of 256)   *)
(* return messages that differ in the sequence byte, byte 4.               *)
C22_DistinctWithinCycle ==
    (/\ kept # NoMessage
     /\ calls > kept.call
     /\ ~raised
     /\ build_args = kept.args
     /\ (calls - kept.call) % 256 # 0)
    => buffer[4] # kept.message[4]

(* a message is compared with the one returned 255 calls before *)
C22_Witness ==
    /\ kept # NoMessage
    /\ calls = kept.call + 255
    /\ ~raised
    /\ build_args = kept.args
    /\ buffer[4] # kept.message[4]

----------------------------------------------------------------------------
(* What a returned message says about the order of the integrity steps.    *)
(* Opened is the returned buffer with bytes 51 .. 146 decrypted; the two   *)
(* bytes of a checksum field are read as a pair.                           *)
Opened(buf) == Blowfish_decrypt(derive_key(Passphrase), buf, 51, ENCRYPTED_BLOCKS)
Complement16(crc_value) == 65535 - crc_value
HighByte(v) == v \div 256
LowByte(v) == v % 256
ReturnsMessage == calls' = calls + 1 /\ ~raised'

(* C23: build does its integrity steps in a fixed order.  In every         *)
(* returned message the header is as _build_header left it; the decrypted  *)
(* bytes 51 .. 146 are the plaintext payload, whose bytes 53-54 are the    *)
(* two bytes of the complemented checksum of plaintext bytes 55 .. 146;    *)
(* the bytes 51 .. 146 are the encryption of that payload as 12 blocks;    *)
(* and bytes 147-148 are the two bytes of the complemented checksum of the *)
(* bytes 0 .. 146 as returned, so that no byte of 0 .. 146 changed after   *)
(* that checksum was computed.                                             *)
C23_IntegrityOrder ==
    [][ReturnsMessage
       => /\ \A i \in 0 .. 50 : buffer'[i] = plain'[i]
          /\ \A i \in {51, 52} \cup (55 .. 146) : Opened(buffer')[i] = plain'[i]
          /\ {Opened(buffer')[53], Opened(buffer')[54]}
                = {LowByte(Complement16(CRC16_calculate(plain', 55, 92))),
                   HighByte(Complement16(CRC16_calculate(plain', 55, 92)))}
          /\ \A i \in 51 .. 146 :
                buffer'[i] = Blowfish_encrypt(derive_key(Passphrase),
                                              Opened(buffer'), 51,
                                              ENCRYPTED_BLOCKS)[i]
          /\ {buffer'[147], buffer'[148]}
                = {LowByte(Complement16(CRC16_calculate(buffer', 0, 147))),
                   HighByte(Complement16(CRC16_calculate(buffer', 0, 147)))}]_vars

(* a message built from a fix and a status was returned, its payload       *)
(* encrypted                                                               *)
C23_Witness ==
    /\ calls > 1
    /\ ~raised
    /\ build_args = <<GpsFix, {StatusInUse}>>
    /\ \E i \in 55 .. 146 : buffer[i] # plain[i]
    /\ \A i \in 55 .. 146 : Opened(buffer)[i] = plain[i]

----------------------------------------------------------------------------
(* C25: decoding the five packed bytes gives back the year, month, day,    *)
(* hour, minute and second that were encoded, for every year 1980 .. 2107, *)
(* month 1 .. 12, day 1 .. 31, hour 0 .. 23, minute and second 0 .. 59;    *)
(* the five bytes are bytes.                                               *)
C25_TimestampRoundTrip ==
    (ts_bytes # None)
    => /\ \A i \in 0 .. 4 : ts_bytes[i] \in Bytes
       /\ <<ts_out.year, ts_out.month, ts_out.day,
            ts_out.hour, ts_out.minute, ts_out.second>> = ts_in

(* the last second of the last year was encoded and decoded *)
C25_Witness ==
    /\ ts_bytes # None
    /\ ts_in = <<2107, 12, 31, 23, 59, 59>>
    /\ ts_out.year = 2107
    /\ ts_out.second = 59

----------------------------------------------------------------------------
(* C26 as stated: build never rejects its input.  Whatever the fix and the *)
(* status, one-byte codes and 16-bit fields out of their range included,   *)
(* the call returns a message of 149 bytes and does not raise.             *)
C26_BuildNeverRejects ==
    [][calls' = calls + 1
       => /\ ~raised'
          /\ DOMAIN buffer' = 0 .. 148
          /\ \A i \in 0 .. 148 : buffer'[i] \in 0 .. 255]_vars

(* C27: every message build returns is 149 bytes long, starts with 0x24    *)
(* and 0x55, carries 149 big-endian in bytes 2-3 and 0x44 in byte 9, and   *)
(* holds in bytes 10 .. 21 the configured source type null-padded to 12    *)
(* bytes, whatever calls came before.                                      *)
C27_HeaderOfEveryMessage ==
    [][ReturnsMessage
       => /\ DOMAIN buffer' = 0 .. 148
          /\ buffer'[0] = 36
          /\ buffer'[1] = 85
          /\ buffer'[2] = 0
          /\ buffer'[3] = 149
          /\ buffer'[9] = 68
          /\ \A i \in 0 .. 11 :
                buffer'[10 + i] = IF i < Len(source_type) THEN source_type[i + 1]
                                  ELSE 0]_vars

(* the third message of an object configured with an 11-character source   *)
(* type was returned                                                       *)
C27_Witness ==
    /\ calls = 3
    /\ ~raised
    /\ Len(source_type) = 11
    /\ buffer[0] = 36
    /\ buffer[20] = source_type[11]
    /\ buffer[21] = 0

----------------------------------------------------------------------------
(* C32: in every reachable state the retry counter is between 0 and        *)
(* Timing.MAX_RETRIES, whatever connect and send failures occurred.        *)
C32_RetryCounterBounded ==
    retry_count >= 0 /\ retry_count <= MAX_RETRIES

(* C36: in every reachable state the continuous flag is set exactly when   *)
(* the persisted operating mode is Continuous.                             *)
C36_ContinuousFlagIsMode ==
    continuous_mode <=> (operating_mode = MODE_CONTINUOUS)

C37_ReturnsToLowPower ==
    [][\A in \in InputsRead(state) :
          (/\ HandlerRuns(READY, in)
           /\ operating_mode \in {MODE_STANDBY, MODE_HIBERNATE}
           /\ last_transmit_time # 0
           /\ now - last_transmit_time < _get_report_interval_ms(Self)
           /\ ~log_upload_requested /\ ~status_requested
           /\ ~locate_requested /\ pending_alerts = <<>>)
          => state' \in {STANDBY, HIBERNATE}]_vars

(* C39: a status or locate request forces exactly one transition from      *)
(* Ready to Transmit.  The Ready tick that acts on a request goes to        *)
(* Transmit and clears that request's flag, leaving the other request       *)
(* pending; a Ready tick that serves a pending log upload leaves both       *)
(* request flags as they are; and a request flag is cleared by no step      *)
(* other than a Ready tick, which goes to Transmit unless a call of the    *)
(* loop after the handler fails (the exception boundary of run then goes   *)
(* to Error).                                                              *)
C39_RequestActedOnOnce ==
    [][/\ \A in \in InputsRead(state) :
             HandlerRuns(READY, in) =>
                IF log_upload_requested
                THEN /\ state' = LOG_UPLOAD
                     /\ status_requested' = status_requested
                     /\ locate_requested' = locate_requested
                ELSE IF status_requested
                THEN /\ state' = TRANSMIT
                     /\ ~status_requested'
                     /\ locate_requested' = locate_requested
                ELSE locate_requested =>
                        (state' = TRANSMIT /\ ~locate_requested')
       /\ (status_requested /\ ~status_requested') =>
             /\ state = READY /\ handler' = READY
             /\ state' = TRANSMIT \/ error_message' = UnexpectedFailureMsg
       /\ (locate_requested /\ ~locate_requested') =>
             /\ state = READY /\ handler' = READY
             /\ state' = TRANSMIT \/ error_message' = UnexpectedFailureMsg]_vars

(* A Ready tick has gone to Transmit for a status request alone: no alert  *)
(* is pending, no locate request is set and the report interval has not    *)
(* elapsed since the last transmit time.                                   *)
C39_Witness ==
    /\ state = TRANSMIT /\ handler = READY
    /\ ~status_requested /\ ~locate_requested
    /\ pending_alerts = <<>>
    /\ last_transmit_time # 0
    /\ now - last_transmit_time < _get_report_interval_ms(Self)

(* C33: every raised alert is eventually delivered, even if the first send *)
(* after it was raised failed.  Nothing but the pending alerts remembers   *)
(* an alert, so delivery requires that alerts leave the pending alerts     *)
(* only in a Transmit tick whose send succeeded (the tick stamps the       *)
(* transmit time and returns to Ready) and whose message carries them in   *)
(* its alert mask.                                                         *)
C33_AlertsLeaveOnlyWhenDelivered ==
    [][\A in \in InputsRead(state) :
          (/\ IterationStarts(in)
           /\ rf_enabled
           /\ pending_alerts # <<>>
           /\ pending_alerts' = <<>>)
          => /\ state = TRANSMIT
             /\ in.send_ok
             /\ state' = READY /\ last_transmit_time' = now
             /\ Len(messages') = Len(messages) + 1
             /\ BitOr(messages'[Len(messages')].alerts,
                      AlertMask(pending_alerts))
                   = messages'[Len(messages')].alerts]_vars

(* C34: alerts raised while RF is disabled are not discarded.  A Ready or  *)
(* Transmit tick taken with RF disabled leaves the pending alerts as they  *)
(* are; with RF enabled again, such alerts leave the pending alerts only   *)
(* in a tick that builds a message, and the message built while they are   *)
(* pending carries every one of them in its alert mask.                    *)
C34_HeldAlertsReachAMessage ==
    [][\A in \in InputsRead(state) :
          (/\ IterationRuns(in)
           /\ state \in {READY, TRANSMIT}
           /\ held_alerts # {})
          => IF ~rf_enabled
             THEN pending_alerts' = pending_alerts
             ELSE /\ pending_alerts' # pending_alerts
                     => Len(messages') = Len(messages) + 1
                  /\ Len(messages') # Len(messages)
                     => \A a \in held_alerts :
                           BitOr(messages'[Len(messages')].alerts, a)
                              = messages'[Len(messages')].alerts]_vars

(* C34, the part about RF disabled alone: a Ready or Transmit tick taken   *)
(* with RF disabled leaves the pending alerts as they are.                 *)
RfDisabledKeepsAlerts ==
    [][\A in \in InputsRead(state) :
          (IterationRuns(in) /\ state \in {READY, TRANSMIT} /\ ~rf_enabled)
          => pending_alerts' = pending_alerts]_vars

(* C35 as worded: a message returned by build is a stable value; a later   *)
(* call of build on the same codec changes no byte of it.                  *)
C35_ReturnedMessageStable ==
    kept # NoMessage => KeptMessageNow = kept.message

(* C35: a message returned by build is the codec's own pre-allocated       *)
(* buffer.  It reads as it was returned until the next call of build, and  *)
(* after a later call that returned a message it reads as that later       *)
(* message.                                                                *)
C35_ReturnedMessageIsBuffer ==
    kept # NoMessage =>
       /\ calls = kept.call => KeptMessageNow = kept.message
       /\ (calls > kept.call /\ ~raised) => KeptMessageNow = buffer

(* The call after the one whose message was kept has returned, and the     *)
(* kept message no longer reads as it was returned.                        *)
C35_Witness ==
    /\ kept # NoMessage
    /\ calls = kept.call + 1
    /\ ~raised
    /\ KeptMessageNow # kept.message
    /\ KeptMessageNow[4] = (kept.message[4] + 1) % 256

(* C31: block decryption inverts block encryption under the same key: for  *)
(* every buffer of whole 8-byte blocks and every derived key, decrypting   *)
(* the encrypted buffer with the same block count restores the original    *)
(* bytes.                                                                  *)
C31_DecryptInvertsEncrypt ==
    [][CipherDecrypt => cipher'.data = cipher.original]_vars

(* A two-block buffer was encrypted to different bytes and decrypted back  *)
(* to its original bytes.                                                  *)
C31_Witness ==
    /\ cipher # None
    /\ cipher.decrypted
    /\ Cardinality(DOMAIN cipher.original) = 16
    /\ cipher.encrypted # cipher.original
    /\ cipher.data = cipher.original

(* C40: the configured moving and stopped reporting rates stay within      *)
(* 5..86400 seconds after any sequence of set-reporting-rate commands.     *)
C40_RatesWithinRange ==
    rates # None =>
       /\ rates.moving >= RateSecMin /\ rates.moving <= RateSecMax
       /\ rates.stopped >= RateSecMin /\ rates.stopped <= RateSecMax

(* C40, the part about rejected commands alone: a set-rate command with    *)
(* fewer than 3 data bytes or an unknown rate type returns failure and     *)
(* leaves every configured rate unchanged.                                 *)
RejectedSetRateChangesNothing ==
    [][SetRate =>
          ((Len(rates'.cmd_data) < 3
            \/ rates'.cmd_data[1] \notin {RATE_MOVING, RATE_STOPPED,
                                          RATE_STANDBY})
           => /\ ~rates'.result
              /\ rates'.moving = rates.moving
              /\ rates'.stopped = rates.stopped
              /\ rates'.standby = rates.standby)]_vars

====
